---- MODULE Spec2Model ----
(***************************************************************************)
(* simpleRawPicker (src/main.py): the versioned metadata save protocol of  *)
(* CullingWidget and the priority task queue its loader threads drain.     *)
(*                                                                         *)
(* One control (GUI) thread runs the handlers set_rating, set_color_label, *)
(* toggle_select, unselect_current, save_all_dirty_files,                  *)
(* _apply_task_plan, cleanup and the slots of the worker signals; the      *)
(* loader threads run _loader_loop.  A handler is one action unless it     *)
(* blocks or shares the queue with the loader threads step by step: the    *)
(* drain loop of _flush_queue takes one queue item per step, and           *)
(* save_all_dirty_files(wait=True) and cleanup block the control thread.   *)
(*                                                                         *)
(* update_xmp (src/main.py:1020-1036) is modelled by its body acting on a  *)
(* photo's fields, which is what its callers pass it.                      *)
(***************************************************************************)
EXTENDS Integers, Sequences, FiniteSets, TLC

\* ---------------------------------------------------------------- bounds
NumPhotos == 2        \* photos in the catalog
MaxMutations == 2     \* cap on the local mutations of a session (sum of versions)
MaxTasks == 3         \* cap on _task_counter (tasks ever posted)
MaxRatingInput == 1   \* ratings the user enters are 1..MaxRatingInput
NumPlanPhotos == 2    \* photos in the catalog the whole plan runs over
MaxPlanTasks == 10    \* cap on _task_counter in PlanSpec
NumCachePhotos == 3   \* photos whose images the cache runs put and read
InitFullLimit == 3    \* cache_full_limit at start (32 in __init__, lowered to be reached)
InitHalfLimit == 2    \* cache_half_limit at start (64 in __init__, lowered)
ResizedLimit == 1     \* cache_resized_limit (32 in __init__, lowered)
FullLimitFloor == 2   \* the least cache_full_limit the budget leaves (8, lowered)
HalfLimitFloor == 1   \* the least cache_half_limit the budget leaves (16, lowered)
MaxImageSize == 2     \* _estimate_pil_bytes of an image is 1..MaxImageSize units
MaxSlotWorkers == 8   \* the most loader threads a session of the slot runs starts
MaxDecodes == 3       \* cap on the decodes that end in a session of the notice runs
MaxRetryTasks == 6    \* cap on _task_counter in RetrySpec
NumAnalysisPhotos == 3 \* photos a bulk analysis can be started on
MaxFocusTasks == 8    \* cap on _task_counter in FocusSpec
MaxPlanLen == 3       \* the longest plan handed to _apply_task_plan in DedupSpec
MaxDedupTasks == 4    \* cap on _task_counter in DedupSpec

\* ------------------------------------------------------ program constants
MaxRating == 5             \* set_rating accepts 0 <= rating <= 5
SavePriority == 20         \* priority of a metadata write task
XmpNeededPriority == -95   \* priority of the read _load_xmp_if_needed posts
NumWorkers == 2            \* the least number of loader threads __init__ starts
XmpFocusPriority == -95    \* plan_xmp(cur_path, -95)
HALF_BASE == -60           \* neighbour at distance d: HALF_BASE + d * 2
ForwardWindow == 10        \* neighbours planned after the focus item
BackwardWindow == 3        \* neighbours planned before the focus item
HalfFocusPriority == -100  \* plan_load(cur_path, 'half', -100)
FullForwardWindow == 5     \* full-resolution decodes planned after the focus item
FullBackwardWindow == 2    \* full-resolution decodes planned before the focus item
FULL_BASE == -40           \* full-resolution decode at distance d: FULL_BASE + d
MinBudget == 2             \* 64 * 1024 * 1024 bytes, counted in units of 32 MiB
IdleSlotCap == 3           \* max(1, min(3, self._num_workers // 2))
MetaPriority == -89        \* _enqueue_meta posts at -89
ThumbPriority == -96       \* _update_filmstrip: _enqueue_thumb(it['path'], target_h, priority=-96)
ResizedFocusPriority == -99 \* _show_current: _enqueue_build_resized_pixmap(p.path, target_size, -99)
FullFocusPriority == -90   \* _on_full_delay_fire: _enqueue_load(cur.path, 'full', -90)

Photos == 1..NumPhotos
RatingInputs == 1..MaxRatingInput
LabelInputs == {"Red"}

\* A Python dict is a function on the keys it holds.
EmptyDict == [k \in {} |-> 0]
Get(d, k, default) == IF k \in DOMAIN d THEN d[k] ELSE default

VARIABLES
    photo,            \* Photo fields of each catalogued photo
    sidecar,          \* the .xmp file of each photo on disk
    EXIFTOOL_PATH,    \* TRUE iff an ExifTool binary was resolved
    taskq,            \* _taskq: the items of the PriorityQueue
    unfinished,       \* _taskq.unfinished_tasks
    task_counter,     \* _task_counter
    pending_tasks,    \* _pending_tasks
    loader_stop,      \* _loader_stop
    running,          \* the loader threads inside a task: position and locals
    exited,           \* the number of loader threads that left _loader_loop
    done_events,      \* the threading.Event objects that are set (by task seq)
    signals,          \* queued signal emissions awaiting the control thread
    ctl,              \* the control thread's position and locals
    cache,            \* the image caches and their byte accounting
    slots,            \* the full-resolution decode slots and who holds them
    loads,            \* the decode-failure notices
    jobs,             \* the export and analysis workers with what they work on
    history           \* what the properties need of the past (no program state):
                      \*   flushed: "no" after a local mutation, "save" once
                      \*     save_all_dirty_files has been called since, "wait"
                      \*     once a call with wait=True has returned since;
                      \*   last_mutation: the fields each photo had right after
                      \*     its last local mutation ({} before the first);
                      \*   queued_writes: while _flush_queue runs, the write
                      \*     tasks that were queued when it was called

\* The variables of the image pipeline and of the background workers; the
\* metadata handlers leave them alone.
image_vars == <<cache, slots, loads, jobs>>

vars == <<photo, sidecar, EXIFTOOL_PATH, taskq, unfinished, task_counter,
          pending_tasks, loader_stop, running, exited, done_events, signals, ctl,
          history, image_vars>>

\* ------------------------------------------------------------ sidecar I/O
\* The tags of the .xmp file: Rating 0 and Label "" stand for an absent tag,
\* Urgency -1 for an absent Urgency tag.  A missing file, an empty file and
\* the tagless template _ensure_xmp_file_exists writes all read as {}: they
\* are the one value NoSidecar.
NoSidecar == [Rating |-> 0, Label |-> "", Urgency |-> -1]
TaggedSidecar == [Rating |-> 1, Label |-> "Red", Urgency |-> 1]

\* read_xmp_sidecar: {} without ExifTool or without a file; a tag whose value
\* is falsy in Python (0, "") is left out of the result.
read_xmp_sidecar(sc, exiftool) ==
    IF ~exiftool THEN EmptyDict
    ELSE [k \in (IF sc.Rating # 0 THEN {"rating"} ELSE {})
                \cup (IF sc.Label # "" THEN {"color_label"} ELSE {})
                \cup (IF sc.Urgency > 0 THEN {"selected"} ELSE {}) |->
            CASE k = "rating" -> sc.Rating
              [] k = "color_label" -> sc.Label
              [] k = "selected" -> TRUE]

\* The tags ExifTool leaves in the file after a successful write of data.
WrittenSidecar(sc, data) ==
    [Rating |-> IF "rating" \in DOMAIN data
                  THEN (IF data["rating"] <= 0 THEN 0 ELSE data["rating"])
                  ELSE sc.Rating,
     Label |-> IF "color_label" \in DOMAIN data THEN data["color_label"] ELSE sc.Label,
     Urgency |-> IF "selected" \in DOMAIN data
                   THEN (IF data["selected"] THEN 1 ELSE 0)
                   ELSE sc.Urgency]

\* write_xmp_sidecar: the file after the call returned ok.  A call that fails
\* (no ExifTool, the file cannot be prepared, ExifTool exits non-zero or cannot
\* be run) leaves the tags as they were.
write_xmp_sidecar(sc, data, ok) == IF ok THEN WrittenSidecar(sc, data) ELSE sc

\* The values write_xmp_sidecar can return.
WriteOutcomes_any(exiftool) == {TRUE, FALSE}
WriteOutcomes(exiftool) == IF exiftool THEN {TRUE, FALSE} ELSE {FALSE}

\* ------------------------------------------------------------------ Photo
NewPhoto == [rating |-> 0, color_label |-> "", selected |-> FALSE,
             xmp_loaded |-> FALSE, is_dirty |-> FALSE, is_saving |-> FALSE,
             version |-> 0, saving_version |-> 0]

\* _load_selections without selections.json: every sidecar is read and applied.
LoadedPhoto(sc, exiftool) ==
    LET data == read_xmp_sidecar(sc, exiftool) IN
    [NewPhoto EXCEPT !.xmp_loaded = (data # EmptyDict),
                     !.rating = Get(data, "rating", 0),
                     !.color_label = Get(data, "color_label", ""),
                     !.selected = Get(data, "selected", FALSE)]

\* What save_all_dirty_files snapshots of a photo.
Payload(p) == [k \in {"rating", "color_label", "selected"} |-> p[k]]

\* update_xmp: the photo after data has been applied.
update_xmp_same_version(p, data) ==
    LET changed == \E k \in DOMAIN data : p[k] # data[k] IN
    IF changed
      THEN [[k \in DOMAIN p |-> IF k \in DOMAIN data THEN data[k] ELSE p[k]]
              EXCEPT !.is_dirty = TRUE]
      ELSE p
update_xmp(p, data) ==
    LET changed == \E k \in DOMAIN data : p[k] # data[k] IN
    IF changed
      THEN [[k \in DOMAIN p |-> IF k \in DOMAIN data THEN data[k] ELSE p[k]]
              EXCEPT !.version = p.version + 1, !.is_dirty = TRUE]
      ELSE p

\* ------------------------------------------------------------------ tasks
NoKey == [path |-> 0, kind |-> "none"]
XmpKey(path) == [path |-> path, kind |-> "xmp"]
Keys == {XmpKey(i) : i \in Photos}

NoTask == [priority |-> 0, seq |-> 0, kind |-> "none", key |-> NoKey, path |-> 0,
           data |-> EmptyDict, version |-> 0, has_event |-> FALSE]
XmpTask(priority, seq, path) ==
    [NoTask EXCEPT !.priority = priority, !.seq = seq, !.kind = "xmp",
                   !.key = XmpKey(path), !.path = path]
SaveTask(seq, path, data, version, has_event) ==
    [NoTask EXCEPT !.priority = SavePriority, !.seq = seq, !.kind = "save",
                   !.path = path, !.data = data, !.version = version,
                   !.has_event = has_event]

\* PriorityQueue order: (priority, sequence) ascending.
Before(a, b) == a.priority < b.priority \/ (a.priority = b.priority /\ a.seq < b.seq)
QueueHead_fifo(q) == CHOOSE t \in q : \A u \in q \ {t} : t.seq < u.seq
QueueHead(q) == CHOOSE t \in q : \A u \in q \ {t} : Before(t, u)

\* A loader thread inside task t: its position and the locals of the task.
InWrite(t, success) ==
    [task |-> t, pc |-> "complete", success |-> success, signal_to_emit |-> "none",
     xmp_data |-> EmptyDict]
InRead(t, xmp_data) ==
    [task |-> t, pc |-> "finish", success |-> FALSE, signal_to_emit |-> "none",
     xmp_data |-> xmp_data]
\* The control thread: idle in the event loop, or inside a handler that spans
\* several steps.  preserve_metadata, preserve_none (preserve_keys is None),
\* preserve_set and preserved are the arguments and locals of _flush_queue,
\* given is the plan _apply_task_plan was called with, plan is its dedup dict
\* as a sequence in sorted order, cur is the focus item
\* _schedule_loading_plan_fire plans for (0 outside it).
IdleCtl == [pc |-> "idle", wait_events |-> {}, preserve_metadata |-> TRUE,
            preserve_none |-> FALSE, preserve_set |-> {}, preserved |-> {},
            given |-> <<>>, plan |-> <<>>, caller |-> "none", cur |-> 0]

\* --------------------------------------------------------------- the queue
QueueState == [taskq |-> taskq, task_counter |-> task_counter,
               pending_tasks |-> pending_tasks, unfinished |-> unfinished]
SetQueue(q) ==
    /\ taskq' = q.taskq
    /\ task_counter' = q.task_counter
    /\ pending_tasks' = q.pending_tasks
    /\ unfinished' = q.unfinished

\* Queue.task_done: one fewer unfinished task; the ValueError of a call too
\* many is swallowed by the callers.
task_done_all(n) == 0

task_done(n) == IF n > 0 THEN n - 1 ELSE 0

\* _post_task: the next sequence number, then put.
post_task(q, t) ==
    [q EXCEPT !.task_counter = @ + 1,
              !.taskq = @ \cup {[t EXCEPT !.seq = q.task_counter + 1]},
              !.unfinished = @ + 1]

\* _enqueue of a sidecar read: nothing when the key is pending.
enqueue_always(q, priority, path) ==
    post_task([q EXCEPT !.pending_tasks = @ \cup {XmpKey(path)}],
              XmpTask(priority, 0, path))
enqueue(q, priority, path) ==
    IF XmpKey(path) \in q.pending_tasks THEN q
    ELSE post_task([q EXCEPT !.pending_tasks = @ \cup {XmpKey(path)}],
                   XmpTask(priority, 0, path))

\* --------------------------------------------- the image pipeline at start
\* The caches are OrderedDicts: a sequence of keys, the first to be evicted at
\* the head.  cache_item_sizes maps <<kind, path>> to the estimated size.
\* used and budget are no program state: used is, for each tier, its cached
\* keys in the order of their last use (put or read); budget is the target of
\* the memory budget that was in force for the insert that led to this state
\* (NoBudget after any other step, and after an insert without a budget).
NoBudget == -1
EmptyCache ==
    [pil_full_cache |-> <<>>, pil_half_cache |-> <<>>, resized_pixmap_cache |-> <<>>,
     cache_item_sizes |-> <<>>, cache_estimated_bytes |-> 0,
     cache_full_limit |-> InitFullLimit, cache_half_limit |-> InitHalfLimit,
     used |-> [full |-> <<>>, half |-> <<>>, resized |-> <<>>],
     budget |-> NoBudget]

\* No decode holds a slot, and no loader thread is in _worker_entry(path, 'full').
FreeSlots ==
    [num_workers |-> NumWorkers, full_running |-> 0, user_hot |-> FALSE,
     acquiring |-> 0, decoding |-> 0, unslotted |-> 0]

\* No decode has failed.  shown, decodes and failed are no program state: the
\* notices the user has seen for each photo, the decodes that have ended, and
\* the keys of the decodes that ended without an image.
NoLoads == [load_failures |-> {}, shown |-> [i \in Photos |-> 0], decodes |-> 0,
            failed |-> {}]

\* No export has been started.
NoExport == [pc |-> "idle", cancel_requested |-> FALSE, catalog |-> <<>>,
             root_jpegs |-> {}, selected_raw_paths |-> <<>>, raw_out |-> <<>>,
             jpeg_out |-> <<>>, to_remove |-> {}, tasks |-> <<>>]

\* No analysis has been started: every photo is pending, none has a result.
\* processed is no program state: the payloads the running worker has made.
AnalysisPhotos == 1..NumAnalysisPhotos
NoAnalysis == [pc |-> "idle", cancel_requested |-> FALSE, photos |-> <<>>, index |-> 0,
               current |-> 0, results |-> EmptyDict, delivered |-> EmptyDict,
               canceled |-> FALSE, analysis_pending_paths |-> AnalysisPhotos,
               analysis_status |-> [i \in AnalysisPhotos |-> "none"],
               store |-> EmptyDict, processed |-> EmptyDict]

\* Navigation: idx is the current photo (0 before the first is shown),
\* scheduled is _heavy_load_scheduler being active, full_wait_target and
\* full_delay_active are _full_wait_target and the _full_delay_timer.
NoNav == [idx |-> 0, scheduled |-> FALSE, full_wait_target |-> 0,
          full_delay_active |-> FALSE]

NoJobs == [export |-> NoExport, analysis |-> NoAnalysis, nav |-> NoNav]

ImageInit == cache = EmptyCache /\ slots = FreeSlots /\ loads = NoLoads /\ jobs = NoJobs

Init ==
    /\ ImageInit
    /\ EXIFTOOL_PATH = TRUE
    /\ sidecar \in {[i \in Photos |-> IF i \in tagged THEN TaggedSidecar ELSE NoSidecar] :
                        tagged \in {{}, {1}}}
    /\ \/ photo = [i \in Photos |-> NewPhoto]
       \/ photo = [i \in Photos |-> LoadedPhoto(sidecar[i], EXIFTOOL_PATH)]
    /\ taskq = {}
    /\ unfinished = 0
    /\ task_counter = 0
    /\ pending_tasks = {}
    /\ loader_stop = FALSE
    /\ running = {}
    /\ exited = 0
    /\ done_events = {}
    /\ signals = <<>>
    /\ ctl = IdleCtl
    /\ history = [flushed |-> "no", last_mutation |-> [i \in Photos |-> EmptyDict],
                  queued_writes |-> {}]

\* ------------------------------------------------- local mutations (GUI)
RECURSIVE SumVersions(_, _)
SumVersions(ph, n) == IF n = 0 THEN 0 ELSE ph[n].version + SumVersions(ph, n - 1)

\* The common body of the four mutating handlers on photo i:
\* _load_xmp_if_needed, then update_xmp(data).
Mutate(i, data) ==
    LET q == IF photo[i].xmp_loaded THEN QueueState
             ELSE enqueue(QueueState, XmpNeededPriority, i)
        p == update_xmp([photo[i] EXCEPT !.xmp_loaded = TRUE], data)
    IN /\ ctl.pc = "idle"
       /\ q.task_counter <= MaxTasks
       /\ photo' = [photo EXCEPT ![i] = p]
       /\ SumVersions(photo', NumPhotos) <= MaxMutations
       /\ SetQueue(q)
       /\ history' = IF p.version = photo[i].version THEN history
                     ELSE [history EXCEPT !.flushed = "no",
                                          !.last_mutation[i] = Payload(p)]
       /\ UNCHANGED <<sidecar, EXIFTOOL_PATH, loader_stop, running, exited,
                      done_events, signals, ctl, image_vars>>

set_rating(i, rating) ==
    /\ 0 <= rating /\ rating <= MaxRating
    /\ Mutate(i, "rating" :> (IF photo[i].rating = rating THEN 0 ELSE rating))

set_color_label(i, label) ==
    Mutate(i, "color_label" :> (IF photo[i].color_label = label THEN "" ELSE label))

toggle_select(i) == Mutate(i, "selected" :> ~photo[i].selected)

unselect_current(i) ==
    /\ photo[i].selected
    /\ Mutate(i, "selected" :> FALSE)

\* ------------------------------------------------- save_all_dirty_files
\* The photos the snapshot loop takes, and the loop's effect on one of them.
Dispatchable_all(ph) == {i \in Photos : ph[i].is_dirty}
Dispatchable(ph) == {i \in Photos : ph[i].is_dirty /\ ~ph[i].is_saving}

snapshot_unversioned(p) == [p EXCEPT !.is_dirty = FALSE, !.is_saving = TRUE]
snapshot_keep_dirty(p) ==
    [p EXCEPT !.is_saving = TRUE, !.saving_version = p.version]
snapshot(p) ==
    [p EXCEPT !.is_dirty = FALSE, !.is_saving = TRUE, !.saving_version = p.version]

\* Tasks are posted in catalog order: the sequence number of photo i's task.
SaveSeq(ph, i) == task_counter + Cardinality({j \in Dispatchable(ph) : j <= i})

\* The write tasks one call of save_all_dirty_files posts.
SaveTasks_blank(ph, wait) ==
    {SaveTask(SaveSeq(ph, i), i, Payload(NewPhoto), ph[i].version, wait) :
        i \in Dispatchable(ph)}
SaveTasks(ph, wait) ==
    {SaveTask(SaveSeq(ph, i), i, Payload(ph[i]), ph[i].version, wait) :
        i \in Dispatchable(ph)}

\* The snapshot loop and the posting loop.  Each iteration of the first works
\* under the lock of one photo and posts nothing, so no loader step on another
\* photo can tell the loops from one step; the tasks all have priority 20 and
\* rising sequence numbers, so a loader's get between two posts takes what it
\* would take after the last.
save_dispatch(wait) ==
    LET tasks == SaveTasks(photo, wait) IN
    /\ task_counter + Cardinality(tasks) <= MaxTasks
    /\ photo' = [i \in Photos |->
                    IF i \in Dispatchable(photo) THEN snapshot(photo[i]) ELSE photo[i]]
    /\ taskq' = taskq \cup tasks
    /\ task_counter' = task_counter + Cardinality(tasks)
    /\ unfinished' = unfinished + Cardinality(tasks)
    /\ UNCHANGED pending_tasks

save_all_dirty_files(wait) ==
    /\ ctl.pc = "idle"
    /\ save_dispatch(wait)
    /\ ctl' = IF wait /\ SaveTasks(photo, wait) # {}
                THEN [IdleCtl EXCEPT !.pc = "wait",
                                     !.wait_events = {t.seq : t \in SaveTasks(photo, wait)}]
                ELSE IdleCtl
    /\ history' = [history EXCEPT !.flushed =
                        IF @ = "wait" \/ (wait /\ SaveTasks(photo, wait) = {})
                          THEN "wait" ELSE "save"]
    /\ UNCHANGED <<sidecar, EXIFTOOL_PATH, loader_stop, running, exited,
                   done_events, signals, image_vars>>

\* for ev in wait_events: ev.wait() is over once every event is set.
wait_over_any(events, set_events) == \E e \in events : e \in set_events
wait_over(events, set_events) == events \subseteq set_events

wait_return ==
    /\ ctl.pc = "wait"
    /\ wait_over(ctl.wait_events, done_events)
    /\ ctl' = IdleCtl
    /\ done_events' = done_events \ ctl.wait_events
    /\ history' = [history EXCEPT !.flushed = "wait"]
    /\ UNCHANGED <<photo, sidecar, EXIFTOOL_PATH, taskq, unfinished, task_counter,
                   pending_tasks, loader_stop, running, exited, signals,
                   image_vars>>

\* ------------------------------------------------------- loader threads
\* _loader_loop.  The loader threads are alike, so `running` holds the ones
\* inside a task and the rest are in get or have exited.  A thread already
\* inside get(timeout=0.2) when the stop flag is raised still takes an item
\* that arrives.
\*
\* get and the sidecar access the task opens with are one step: between the
\* two the thread touches nothing shared, and a step of another thread that
\* comes between them either leaves the sidecar alone, and then it may as well
\* come after, or is a sidecar access of a thread that has its item already,
\* and then it may as well come before the get.

\* get returns a metadata write; the try block of _write_task_with_cleanup
\* calls write_xmp_sidecar, which returns one of `outcomes`.
loader_run_write(outcomes) ==
    /\ Cardinality(running) + exited < NumWorkers
    /\ taskq # {}
    /\ QueueHead(taskq).kind = "save"
    /\ LET t == QueueHead(taskq) IN
        \E ok \in WriteOutcomes(EXIFTOOL_PATH) \cap outcomes :
            /\ taskq' = taskq \ {t}
            /\ sidecar' = [sidecar EXCEPT ![t.path] = write_xmp_sidecar(@, t.data, ok)]
            /\ running' = running \cup {InWrite(t, ok)}
    /\ UNCHANGED <<photo, EXIFTOOL_PATH, unfinished, task_counter, pending_tasks,
                   loader_stop, exited, done_events, signals, ctl, history,
                   image_vars>>

\* get returns a sidecar read; _worker_entry(path, 'xmp') calls read_xmp_sidecar.
loader_run_xmp ==
    /\ Cardinality(running) + exited < NumWorkers
    /\ taskq # {}
    /\ QueueHead(taskq).kind = "xmp"
    /\ LET t == QueueHead(taskq) IN
        /\ taskq' = taskq \ {t}
        /\ running' = running
                \cup {InRead(t, read_xmp_sidecar(sidecar[t.path], EXIFTOOL_PATH))}
    /\ UNCHANGED <<photo, sidecar, EXIFTOOL_PATH, unfinished, task_counter,
                   pending_tasks, loader_stop, exited, done_events, signals, ctl, history,
                   image_vars>>

\* _write_task_with_cleanup, the finally block under photo_obj.lock: the photo
\* and signal_to_emit after a write of `version` ended with `success`.
reconcile_any_version(p, version, success) ==
    IF p.version > version
      THEN [photo |-> [p EXCEPT !.is_saving = FALSE, !.is_dirty = TRUE,
                                !.saving_version = version],
            signal |-> "none"]
    ELSE IF ~success
      THEN [photo |-> [p EXCEPT !.is_saving = FALSE, !.is_dirty = TRUE,
                                !.saving_version = version],
            signal |-> "failed"]
    ELSE [photo |-> [p EXCEPT !.is_saving = FALSE, !.saving_version = version],
          signal |-> "saved"]
reconcile_clean_on_success(p, version, success) ==
    IF p.saving_version # version THEN [photo |-> p, signal |-> "none"]
    ELSE IF ~success
      THEN [photo |-> [p EXCEPT !.is_saving = FALSE, !.is_dirty = TRUE,
                                !.saving_version = version],
            signal |-> "failed"]
    ELSE [photo |-> [p EXCEPT !.is_saving = FALSE, !.is_dirty = FALSE,
                              !.saving_version = version],
          signal |-> "saved"]
reconcile_drop_failure(p, version, success) ==
    IF p.saving_version # version THEN [photo |-> p, signal |-> "none"]
    ELSE IF p.version > version
      THEN [photo |-> [p EXCEPT !.is_saving = FALSE, !.is_dirty = TRUE,
                                !.saving_version = version],
            signal |-> "none"]
    ELSE [photo |-> [p EXCEPT !.is_saving = FALSE, !.saving_version = version],
          signal |-> IF success THEN "saved" ELSE "failed"]
reconcile(p, version, success) ==
    IF p.saving_version # version THEN [photo |-> p, signal |-> "none"]
    ELSE IF p.version > version
      THEN [photo |-> [p EXCEPT !.is_saving = FALSE, !.is_dirty = TRUE,
                                !.saving_version = version],
            signal |-> "none"]
    ELSE IF ~success
      THEN [photo |-> [p EXCEPT !.is_saving = FALSE, !.is_dirty = TRUE,
                                !.saving_version = version],
            signal |-> "failed"]
    ELSE [photo |-> [p EXCEPT !.is_saving = FALSE, !.saving_version = version],
          signal |-> "saved"]

\* The finally block: reconcile, then done_event.set().
write_task_complete(r) ==
    /\ r.pc = "complete"
    /\ LET c == reconcile(photo[r.task.path], r.task.version, r.success) IN
        /\ photo' = [photo EXCEPT ![r.task.path] = c.photo]
        /\ running' = (running \ {r})
                        \cup {[r EXCEPT !.pc = "emit", !.signal_to_emit = c.signal]}
    /\ done_events' = IF r.task.has_event THEN done_events \cup {r.task.seq}
                      ELSE done_events
    /\ UNCHANGED <<sidecar, EXIFTOOL_PATH, taskq, unfinished, task_counter,
                   pending_tasks, loader_stop, exited, signals, ctl, history,
                   image_vars>>

\* The signal emission that ends the task, then task_done in _loader_loop.
write_task_emit(r) ==
    /\ r.pc = "emit"
    /\ signals' = IF r.signal_to_emit = "none" THEN signals
                  ELSE Append(signals, [sig |-> r.signal_to_emit, path |-> r.task.path,
                                        data |-> EmptyDict])
    /\ unfinished' = task_done(unfinished)
    /\ running' = running \ {r}
    /\ UNCHANGED <<photo, sidecar, EXIFTOOL_PATH, taskq, task_counter,
                   pending_tasks, loader_stop, exited, done_events, ctl, history,
                   image_vars>>

\* _worker_entry(path, 'xmp'): emit when the result is not empty; then the
\* finally of _wrap clears the key, and _loader_loop calls task_done.
xmp_task_finish(r) ==
    /\ r.pc = "finish"
    /\ signals' = IF r.xmp_data = EmptyDict THEN signals
                  ELSE Append(signals, [sig |-> "xmp", path |-> r.task.path,
                                        data |-> r.xmp_data])
    /\ pending_tasks' = pending_tasks \ {r.task.key}
    /\ unfinished' = task_done(unfinished)
    /\ running' = running \ {r}
    /\ UNCHANGED <<photo, sidecar, EXIFTOOL_PATH, taskq, task_counter,
                   loader_stop, exited, done_events, ctl, history, image_vars>>

\* while not self._loader_stop: a thread outside a task leaves the loop.
loader_exit ==
    /\ loader_stop
    /\ Cardinality(running) + exited < NumWorkers
    /\ exited' = exited + 1
    /\ UNCHANGED <<photo, sidecar, EXIFTOOL_PATH, taskq, unfinished, task_counter,
                   pending_tasks, loader_stop, running, done_events, signals, ctl, history,
                   image_vars>>

\* ------------------------------------------------- slots (control thread)
\* _on_xmp_ready under photo.lock: the photo after a read result is applied.
apply_xmp_unguarded(p, data) ==
    [[k \in DOMAIN p |-> IF k \in DOMAIN data THEN data[k] ELSE p[k]]
        EXCEPT !.xmp_loaded = TRUE]
apply_xmp(p, data) ==
    IF p.is_dirty \/ p.is_saving THEN [p EXCEPT !.xmp_loaded = TRUE]
    ELSE [[k \in DOMAIN p |-> IF k \in DOMAIN data THEN data[k] ELSE p[k]]
            EXCEPT !.xmp_loaded = TRUE]

on_xmp_ready ==
    /\ ctl.pc = "idle"
    /\ signals # <<>>
    /\ Head(signals).sig = "xmp"
    /\ photo' = [photo EXCEPT ![Head(signals).path] = apply_xmp(@, Head(signals).data)]
    /\ signals' = Tail(signals)
    /\ UNCHANGED <<sidecar, EXIFTOOL_PATH, taskq, unfinished, task_counter,
                   pending_tasks, loader_stop, running, exited, done_events, ctl, history,
                   image_vars>>

\* _on_xmp_saved and _on_xmp_save_failed only report to the user.
on_xmp_saved ==
    /\ ctl.pc = "idle"
    /\ signals # <<>>
    /\ Head(signals).sig = "saved"
    /\ signals' = Tail(signals)
    /\ UNCHANGED <<photo, sidecar, EXIFTOOL_PATH, taskq, unfinished, task_counter,
                   pending_tasks, loader_stop, running, exited, done_events, ctl, history,
                   image_vars>>

on_xmp_save_failed ==
    /\ ctl.pc = "idle"
    /\ signals # <<>>
    /\ Head(signals).sig = "failed"
    /\ signals' = Tail(signals)
    /\ UNCHANGED <<photo, sidecar, EXIFTOOL_PATH, taskq, unfinished, task_counter,
                   pending_tasks, loader_stop, running, exited, done_events, ctl, history,
                   image_vars>>

\* ------------------------------------------------------------ _flush_queue
\* _restore_cancelled_save_task under photo_obj.lock.
restore_cancelled_save_task(p, version) ==
    IF p.saving_version = version /\ p.is_saving
      THEN [p EXCEPT !.is_saving = FALSE, !.is_dirty = TRUE, !.saving_version = version]
      ELSE p

\* The test that puts a drained item on the preserved list.
flush_keeps_keyed(item, c) ==
    \/ item.key # NoKey
    \/ c.preserve_metadata /\ item.kind = "save"
flush_keeps(item, c) ==
    \/ ~c.preserve_none /\ item.key \in c.preserve_set
    \/ c.preserve_metadata /\ item.kind = "save"

\* What becomes of _pending_tasks when an item is dropped.
drop_pending_stays(pend, item) == pend
drop_pending(pend, item) == IF item.key # NoKey THEN pend \ {item.key} ELSE pend

\* One turn of the drain loop: get_nowait, keep or drop, task_done.
flush_queue_step ==
    /\ ctl.pc = "flush"
    /\ taskq # {}
    /\ LET item == QueueHead(taskq)
           keep == flush_keeps(item, ctl) IN
        /\ taskq' = taskq \ {item}
        /\ ctl' = IF keep THEN [ctl EXCEPT !.preserved = @ \cup {item}] ELSE ctl
        /\ photo' = IF ~keep /\ item.kind = "save"
                      THEN [photo EXCEPT ![item.path] =
                              restore_cancelled_save_task(@, item.version)]
                      ELSE photo
        /\ pending_tasks' = IF keep THEN pending_tasks
                            ELSE drop_pending(pending_tasks, item)
        /\ unfinished' = task_done(unfinished)
    /\ UNCHANGED <<sidecar, EXIFTOOL_PATH, task_counter, loader_stop, running, exited,
                   done_events, signals, history, image_vars>>

\* _pending_tasks when _flush_queue returns: cleared without preserve_keys.
pending_after_flush_cleared(pend, preserve_none) == {}
pending_after_flush(pend, preserve_none) == IF preserve_none THEN {} ELSE pend

\* for item in preserved: self._taskq.put(item).
put_back_keyed(preserved) == {t \in preserved : t.key # NoKey}
put_back(preserved) == preserved

\* get_nowait raised Empty: the preserved items are put back, and without
\* preserve_keys the pending set is cleared.  Then the caller goes on.
flush_queue_end ==
    /\ ctl.pc = "flush"
    /\ taskq = {}
    /\ taskq' = put_back(ctl.preserved)
    /\ unfinished' = unfinished + Cardinality(put_back(ctl.preserved))
    /\ pending_tasks' = pending_after_flush(pending_tasks, ctl.preserve_none)
    /\ ctl' = [ctl EXCEPT !.pc = IF ctl.caller = "cleanup" THEN "join" ELSE "enqueue",
                          !.preserved = {}]
    /\ history' = [history EXCEPT !.queued_writes = {}]
    /\ UNCHANGED <<photo, sidecar, EXIFTOOL_PATH, task_counter, loader_stop, running, exited,
                   done_events, signals, image_vars>>

\* --------------------------------------------------------- _apply_task_plan
\* A plan is a list of entries [priority, key].
\* _schedule_loading_plan_fire: the sidecar reads it plans around the focus
\* item cur: the focus item first, then the neighbours by distance, the one
\* after the focus before the one ahead of it.  (The decode and render tasks
\* of the plan belong to the image caches and are not part of this module's
\* queue.)
RECURSIVE NeighborPlan(_, _)
NeighborPlan(cur, d) ==
    IF d > ForwardWindow THEN <<>>
    ELSE (IF cur + d <= NumPhotos
            THEN <<[priority |-> HALF_BASE + d * 2, key |-> XmpKey(cur + d)]>>
            ELSE <<>>)
         \o (IF d <= BackwardWindow /\ cur - d >= 1
               THEN <<[priority |-> HALF_BASE + d * 2, key |-> XmpKey(cur - d)]>>
               ELSE <<>>)
         \o NeighborPlan(cur, d + 1)

\* cur = 0 stands for no current photo: the plan is empty.
LoadingPlan(cur) ==
    IF cur = 0 THEN <<>>
    ELSE <<[priority |-> XmpFocusPriority, key |-> XmpKey(cur)]>> \o NeighborPlan(cur, 1)

PlanKeys(plan) == {plan[n].key : n \in DOMAIN plan}
FirstIndex(plan, k) ==
    CHOOSE n \in DOMAIN plan :
        plan[n].key = k /\ \A m \in DOMAIN plan : plan[m].key = k => n <= m

\* dedup[key]: the entry with the lowest priority value wins.
DedupPriority_last(plan, k) ==
    plan[CHOOSE n \in DOMAIN plan :
            plan[n].key = k /\ \A m \in DOMAIN plan : plan[m].key = k => m <= n].priority
DedupPriority(plan, k) ==
    CHOOSE x \in {plan[n].priority : n \in {m \in DOMAIN plan : plan[m].key = k}} :
        \A n \in DOMAIN plan : plan[n].key = k => x <= plan[n].priority

\* sorted(dedup.items(), key=priority): stable, so ties keep the order in
\* which the keys first came up in the plan.
Ordered(plan) ==
    LET ks == PlanKeys(plan)
        lt(a, b) == \/ DedupPriority(plan, a) < DedupPriority(plan, b)
                    \/ /\ DedupPriority(plan, a) = DedupPriority(plan, b)
                       /\ FirstIndex(plan, a) < FirstIndex(plan, b)
        s == CHOOSE f \in [1..Cardinality(ks) -> ks] :
                \A i, j \in 1..Cardinality(ks) : i < j => lt(f[i], f[j])
    IN [n \in 1..Cardinality(ks) |->
            [priority |-> DedupPriority(plan, s[n]), key |-> s[n]]]

RECURSIVE EnqueueAll(_, _)
EnqueueAll(q, entries) ==
    IF entries = <<>> THEN q
    ELSE EnqueueAll(enqueue(q, Head(entries).priority, Head(entries).key.path),
                    Tail(entries))

\* dedup, then _flush_queue(preserve_keys=set(dedup.keys())) starts.
apply_task_plan(plan) ==
    /\ ctl.pc = "idle"
    /\ task_counter + Cardinality(PlanKeys(plan)) <= MaxTasks
    /\ ctl' = [IdleCtl EXCEPT !.pc = "flush", !.preserve_set = PlanKeys(plan),
                              !.given = plan, !.plan = Ordered(plan),
                              !.caller = "plan"]
    /\ history' = [history EXCEPT !.queued_writes = {t \in taskq : t.kind = "save"}]
    /\ UNCHANGED <<photo, sidecar, EXIFTOOL_PATH, taskq, unfinished, task_counter,
                   pending_tasks, loader_stop, running, exited, done_events, signals,
                   image_vars>>

\* for key, (priority, fn, args) in ordered: self._enqueue(...).  The entries
\* come in rising priority value, so a loader's get between two of them takes
\* what it would take after the last.
apply_task_plan_enqueue ==
    /\ ctl.pc = "enqueue"
    /\ SetQueue(EnqueueAll(QueueState, ctl.plan))
    /\ ctl' = IdleCtl
    /\ UNCHANGED <<photo, sidecar, EXIFTOOL_PATH, loader_stop, running, exited, done_events,
                   signals, history, image_vars>>

\* The settle timer fires: the plan for the focus item is computed and applied;
\* without a current photo the queue is flushed with nothing to preserve.
schedule_loading_plan_fire(cur) == apply_task_plan(LoadingPlan(cur))

\* ------------------------------------------------------------------ cleanup
\* save_all_dirty_files(), then _flush_queue() starts.
cleanup ==
    /\ ctl.pc = "idle"
    /\ save_dispatch(FALSE)
    /\ ctl' = [IdleCtl EXCEPT !.pc = "flush", !.preserve_none = TRUE,
                              !.caller = "cleanup"]
    /\ history' = [history EXCEPT !.flushed = IF @ = "wait" THEN "wait" ELSE "save",
                                  !.queued_writes = {t \in taskq' : t.kind = "save"}]
    /\ UNCHANGED <<sidecar, EXIFTOOL_PATH, loader_stop, running, exited, done_events, signals,
                   image_vars>>

\* self._taskq.join() returned; the stop flag is raised and the session ends.
cleanup_stop ==
    /\ ctl.pc = "join"
    /\ unfinished = 0
    /\ loader_stop' = TRUE
    /\ ctl' = [IdleCtl EXCEPT !.pc = "closed"]
    /\ UNCHANGED <<photo, sidecar, EXIFTOOL_PATH, taskq, unfinished, task_counter,
                   pending_tasks, running, exited, done_events, signals, history,
                   image_vars>>

\* ------------------------------------------------------------ specification
Next ==
    \/ \E i \in Photos, r \in RatingInputs : set_rating(i, r)
    \/ \E i \in Photos, l \in LabelInputs : set_color_label(i, l)
    \/ \E i \in Photos : toggle_select(i)
    \/ \E i \in Photos : unselect_current(i)
    \/ \E wait \in BOOLEAN : save_all_dirty_files(wait)
    \/ wait_return
    \/ \E cur \in {0} \cup Photos : schedule_loading_plan_fire(cur)
    \/ flush_queue_step
    \/ flush_queue_end
    \/ apply_task_plan_enqueue
    \/ cleanup
    \/ cleanup_stop
    \/ on_xmp_ready
    \/ on_xmp_saved
    \/ on_xmp_save_failed
    \/ loader_run_write({TRUE, FALSE})
    \/ loader_run_xmp
    \/ \E r \in running : write_task_complete(r)
    \/ \E r \in running : write_task_emit(r)
    \/ \E r \in running : xmp_task_finish(r)
    \/ loader_exit

Spec == Init /\ [][Next]_vars

\* The same program when no sidecar write fails.
NextWritesSucceed ==
    \/ \E i \in Photos, r \in RatingInputs : set_rating(i, r)
    \/ \E i \in Photos, l \in LabelInputs : set_color_label(i, l)
    \/ \E i \in Photos : toggle_select(i)
    \/ \E i \in Photos : unselect_current(i)
    \/ \E wait \in BOOLEAN : save_all_dirty_files(wait)
    \/ wait_return
    \/ \E cur \in {0} \cup Photos : schedule_loading_plan_fire(cur)
    \/ flush_queue_step
    \/ flush_queue_end
    \/ apply_task_plan_enqueue
    \/ cleanup
    \/ cleanup_stop
    \/ on_xmp_ready
    \/ on_xmp_saved
    \/ loader_run_write({TRUE})
    \/ loader_run_xmp
    \/ \E r \in running : write_task_complete(r)
    \/ \E r \in running : write_task_emit(r)
    \/ \E r \in running : xmp_task_finish(r)
    \/ loader_exit

SpecWritesSucceed == Init /\ [][NextWritesSucceed]_vars

\* The loader threads keep running and a wait that can end ends.
Fairness ==
    /\ WF_vars(loader_run_write({TRUE, FALSE}))
    /\ WF_vars(loader_run_xmp)
    /\ WF_vars(\E r \in running : write_task_complete(r))
    /\ WF_vars(\E r \in running : write_task_emit(r))
    /\ WF_vars(\E r \in running : xmp_task_finish(r))
    /\ WF_vars(wait_return)

LiveSpec == Init /\ [][Next]_vars /\ Fairness

\* ==================================================== the whole loading plan
\* _schedule_loading_plan_fire plans decodes and renders besides the sidecar
\* reads, for a catalog longer than its windows.  The specification PlanSpec
\* runs the replan over PlanPhotos with every kind of keyed task; the enqueue
\* loop of _apply_task_plan takes one entry per step there, since a loader
\* thread can end a task between two calls of _enqueue.
PlanPhotos == 1..NumPlanPhotos
LoadKinds == {"half", "full", "resized"}

\* plan_load, plan_xmp and plan_resized: one plan entry.
PlanEntry(priority, path, kind) ==
    [priority |-> priority, key |-> [path |-> path, kind |-> kind]]

\* The entries for the neighbour at distance d on side dir (1 after the focus
\* item, -1 before it): the sidecar read, then the render when the preview is
\* cached and the preview decode when it is not.
HalfNeighbor(cur, d, dir, half_cached) ==
    LET p == cur + dir * d IN
    IF p < 1 \/ p > NumPlanPhotos \/ (dir = 1 /\ d > ForwardWindow)
         \/ (dir = -1 /\ d > BackwardWindow)
      THEN <<>>
      ELSE <<PlanEntry(HALF_BASE + d * 2, p, "xmp"),
             IF p \in half_cached THEN PlanEntry(HALF_BASE + d * 2 + 1, p, "resized")
                                  ELSE PlanEntry(HALF_BASE + d * 2, p, "half")>>

\* neighbors sorted by distance; the sort is stable, so at one distance the
\* item after the focus comes before the item ahead of it.
RECURSIVE HalfNeighbors(_, _, _)
HalfNeighbors(cur, d, half_cached) ==
    IF d > ForwardWindow \/ (cur + d > NumPlanPhotos /\ cur - d < 1) THEN <<>>
    ELSE HalfNeighbor(cur, d, 1, half_cached) \o HalfNeighbor(cur, d, -1, half_cached)
            \o HalfNeighbors(cur, d + 1, half_cached)

FullNeighbor(cur, d, dir, full_cached) ==
    LET p == cur + dir * d IN
    IF p < 1 \/ p > NumPlanPhotos \/ (dir = 1 /\ d > FullForwardWindow)
         \/ (dir = -1 /\ d > FullBackwardWindow) \/ p \in full_cached
      THEN <<>>
      ELSE <<PlanEntry(FULL_BASE + d, p, "full")>>

RECURSIVE FullNeighbors(_, _, _)
FullNeighbors(cur, d, full_cached) ==
    IF d > FullForwardWindow \/ (cur + d > NumPlanPhotos /\ cur - d < 1) THEN <<>>
    ELSE FullNeighbor(cur, d, 1, full_cached) \o FullNeighbor(cur, d, -1, full_cached)
            \o FullNeighbors(cur, d + 1, full_cached)

\* The plan list of _schedule_loading_plan_fire for the focus item cur, given
\* the paths the preview cache and the full-resolution cache hold.
WholePlan(cur, half_cached, full_cached) ==
    (IF cur \in half_cached THEN <<>> ELSE <<PlanEntry(HalfFocusPriority, cur, "half")>>)
        \o <<PlanEntry(XmpFocusPriority, cur, "xmp")>>
        \o HalfNeighbors(cur, 1, half_cached)
        \o FullNeighbors(cur, 1, full_cached)

\* sorted(dedup.items(), key=priority) by repeated selection of the least.
RECURSIVE SortedEntries(_, _)
SortedEntries(plan, ks) ==
    IF ks = {} THEN <<>>
    ELSE LET lt(a, b) == \/ DedupPriority(plan, a) < DedupPriority(plan, b)
                         \/ /\ DedupPriority(plan, a) = DedupPriority(plan, b)
                            /\ FirstIndex(plan, a) < FirstIndex(plan, b)
             k == CHOOSE a \in ks : \A b \in ks \ {a} : lt(a, b)
         IN <<[priority |-> DedupPriority(plan, k), key |-> k]>>
                \o SortedEntries(plan, ks \ {k})

\* The queue item _enqueue posts for a key.
KeyTask(priority, key) ==
    [NoTask EXCEPT !.priority = priority, !.kind = key.kind, !.key = key,
                   !.path = key.path]

\* _enqueue for any key: nothing when the key is pending.
enqueue_key(q, priority, key) ==
    IF key \in q.pending_tasks THEN q
    ELSE post_task([q EXCEPT !.pending_tasks = @ \cup {key}], KeyTask(priority, key))

\* The cache contents a replan can meet, and the focus items it is run for.
CachedChoices == {{}, PlanPhotos}

\* The session PlanSpec starts from: photo 1 was rated, its sidecar read (task
\* 1) has ended, and save_all_dirty_files has posted its write (task 2).
RatedPhoto ==
    [NewPhoto EXCEPT !.rating = 1, !.xmp_loaded = TRUE, !.is_saving = TRUE,
                     !.version = 1, !.saving_version = 1]

PlanStart(exiftool, sc) ==
    /\ ImageInit
    /\ EXIFTOOL_PATH = exiftool
    /\ sidecar = [i \in PlanPhotos |-> sc]
    /\ photo = [i \in Photos |-> IF i = 1 THEN RatedPhoto ELSE NewPhoto]
    /\ taskq = {SaveTask(2, 1, Payload(RatedPhoto), 1, FALSE)}
    /\ unfinished = 1
    /\ task_counter = 2
    /\ pending_tasks = {}
    /\ loader_stop = FALSE
    /\ running = {}
    /\ exited = 0
    /\ done_events = {}
    /\ signals = <<>>
    /\ ctl = IdleCtl
    /\ history = [flushed |-> "save",
                  last_mutation |-> [i \in Photos |->
                        IF i = 1 THEN Payload(RatedPhoto) ELSE EmptyDict],
                  queued_writes |-> {}]

PlanInit == PlanStart(TRUE, NoSidecar)

\* _schedule_loading_plan_fire with a current photo: the plan is computed,
\* _apply_task_plan dedups it and _flush_queue(preserve_keys) starts.
\* _apply_task_plan(plan), called for the focus item cur: the plan is
\* deduplicated and _flush_queue(preserve_keys) starts.
task_plan_start(plan, cur) ==
    /\ ctl.pc = "idle"
    /\ task_counter + Cardinality(PlanKeys(plan)) <= MaxPlanTasks
    /\ ctl' = [IdleCtl EXCEPT !.pc = "flush", !.preserve_set = PlanKeys(plan),
                              !.given = plan,
                              !.plan = SortedEntries(plan, PlanKeys(plan)),
                              !.caller = "replan", !.cur = cur]
    /\ history' = [history EXCEPT !.queued_writes = {t \in taskq : t.kind = "save"}]
    /\ UNCHANGED <<photo, sidecar, EXIFTOOL_PATH, taskq, unfinished, task_counter,
                   pending_tasks, loader_stop, running, exited, done_events, signals>>

whole_plan_start(cur, half_cached, full_cached) ==
    task_plan_start(WholePlan(cur, half_cached, full_cached), cur)

schedule_whole_plan_fire(cur, half_cached, full_cached) ==
    /\ whole_plan_start(cur, half_cached, full_cached)
    /\ UNCHANGED image_vars

\* One turn of the loop over ordered: self._enqueue(priority, key, fn, *args).
apply_task_plan_enqueue_one ==
    /\ ctl.pc = "enqueue"
    /\ ctl.caller = "replan"
    /\ ctl.plan # <<>>
    /\ SetQueue(enqueue_key(QueueState, Head(ctl.plan).priority, Head(ctl.plan).key))
    /\ ctl' = [ctl EXCEPT !.plan = Tail(@)]
    /\ UNCHANGED <<photo, sidecar, EXIFTOOL_PATH, loader_stop, running, exited,
                   done_events, signals, history, image_vars>>

\* The loop is over: _apply_task_plan returns.
apply_task_plan_return ==
    /\ ctl.pc = "enqueue"
    /\ ctl.caller = "replan"
    /\ ctl.plan = <<>>
    /\ ctl' = IdleCtl
    /\ UNCHANGED <<photo, sidecar, EXIFTOOL_PATH, taskq, unfinished, task_counter,
                   pending_tasks, loader_stop, running, exited, done_events, signals,
                   history, image_vars>>

\* A loader thread inside a decode or render task; success is false when the
\* task's action raised.
InLoad(t, success) ==
    [task |-> t, pc |-> "load", success |-> success, signal_to_emit |-> "none",
     xmp_data |-> EmptyDict]

\* get returns a decode or a render: _wrap calls the task's action, which
\* returns or raises.
loader_run_load ==
    /\ Cardinality(running) + exited < NumWorkers
    /\ taskq # {}
    /\ QueueHead(taskq).kind \in LoadKinds
    /\ \E success \in BOOLEAN :
        running' = running \cup {InLoad(QueueHead(taskq), success)}
    /\ taskq' = taskq \ {QueueHead(taskq)}
    /\ UNCHANGED <<photo, sidecar, EXIFTOOL_PATH, unfinished, task_counter,
                   pending_tasks, loader_stop, exited, done_events, signals, ctl,
                   history, image_vars>>

\* The finally of _wrap: the key leaves the pending set, raised or not.
wrap_finally_on_return(pend, r) == IF r.success THEN pend \ {r.task.key} ELSE pend
wrap_finally(pend, r) == pend \ {r.task.key}

\* _wrap ends; _loader_loop catches what the action raised, calls task_done
\* and goes on with its loop.
load_task_finish(r) ==
    /\ r.pc = "load"
    /\ pending_tasks' = wrap_finally(pending_tasks, r)
    /\ unfinished' = task_done(unfinished)
    /\ running' = running \ {r}
    /\ UNCHANGED <<photo, sidecar, EXIFTOOL_PATH, taskq, task_counter, loader_stop,
                   exited, done_events, signals, ctl, history, image_vars>>

PlanNext ==
    \/ \E cur \in PlanPhotos, half_cached \in CachedChoices, full_cached \in CachedChoices :
            schedule_whole_plan_fire(cur, half_cached, full_cached)
    \/ flush_queue_step
    \/ flush_queue_end
    \/ apply_task_plan_enqueue_one
    \/ apply_task_plan_return
    \/ on_xmp_saved
    \/ loader_run_write({TRUE})
    \/ loader_run_xmp
    \/ loader_run_load
    \/ \E r \in running : write_task_complete(r)
    \/ \E r \in running : write_task_emit(r)
    \/ \E r \in running : xmp_task_finish(r)
    \/ \E r \in running : load_task_finish(r)

PlanSpec == PlanInit /\ [][PlanNext]_vars

\* The same session when no ExifTool binary was resolved (EXIFTOOL_PATH is
\* None) and every photo has a sidecar with tags: no sidecar write succeeds,
\* so xmp_saved is never emitted.
NoExifToolInit == PlanStart(FALSE, TaggedSidecar)

NoExifToolNext ==
    \/ \E cur \in PlanPhotos, half_cached \in CachedChoices, full_cached \in CachedChoices :
            schedule_whole_plan_fire(cur, half_cached, full_cached)
    \/ flush_queue_step
    \/ flush_queue_end
    \/ apply_task_plan_enqueue_one
    \/ apply_task_plan_return
    \/ on_xmp_save_failed
    \/ loader_run_write({TRUE, FALSE})
    \/ loader_run_xmp
    \/ loader_run_load
    \/ \E r \in running : write_task_complete(r)
    \/ \E r \in running : write_task_emit(r)
    \/ \E r \in running : xmp_task_finish(r)
    \/ \E r \in running : load_task_finish(r)

NoExifToolSpec == NoExifToolInit /\ [][NoExifToolNext]_vars

\* ============================================================ image caches
\* The preview (half), full-resolution and rendered-output caches.  Every
\* access is under cache_lock, so a put or a read is one step.  The session
\* variables stay as they are at start.
CachePaths == 1..NumCachePhotos
\* _estimate_pil_bytes of a decoded image, in units; the previews are those of
\* the largest images.
SizeChoices(kind) == IF kind = "full" THEN 1..MaxImageSize ELSE {MaxImageSize}
session_vars == <<photo, sidecar, EXIFTOOL_PATH, taskq, unfinished, task_counter,
                  pending_tasks, loader_stop, running, exited, done_events, signals,
                  ctl, history>>

\* psutil.virtual_memory(): total and available, in the unit of the sizes.
\* NoVm stands for a missing psutil, a call that raises and a reading without
\* a positive total or available: the budget is not enforced then.
NoVm == [total |-> 0, available |-> 0]
VmChoices == {NoVm} \cup {[total |-> 40, available |-> a] : a \in {4, 8}}

Max(a, b) == IF a >= b THEN a ELSE b
Min(a, b) == IF a <= b THEN a ELSE b

\* target = max(64 MiB, int(min(total * 0.15, available * 0.5))).
Target(vm) == Max(MinBudget, Min((vm.total * 15) \div 100, vm.available \div 2))

\* The field of a tier, and the limit field and floor the budget uses for it.
Tier(kind) == CASE kind = "full" -> "pil_full_cache"
                [] kind = "half" -> "pil_half_cache"
                [] kind = "resized" -> "resized_pixmap_cache"
LimitOf(kind) == IF kind = "full" THEN "cache_full_limit" ELSE "cache_half_limit"
FloorOf_none(kind) == 0

FloorOf(kind) == IF kind = "full" THEN FullLimitFloor ELSE HalfLimitFloor

\* OrderedDict: membership and pop(key, None).
Cached(od, key) == \E n \in DOMAIN od : od[n] = key
Without(od, key) == SelectSeq(od, LAMBDA x : x # key)

\* dict.pop(key) and dict[key] = value on _cache_item_sizes.
SizesWithout(sizes, key) == [k \in DOMAIN sizes \ {key} |-> sizes[k]]
SizesWith(sizes, key, size) ==
    [k \in DOMAIN sizes \cup {key} |-> IF k = key THEN size ELSE sizes[k]]

\* cache.popitem(last=False) with its bookkeeping: the head of the tier goes,
\* and its recorded size comes off the byte count.
evict_first_keep_size(c, kind) ==
    LET key == Head(c[Tier(kind)]) IN
    [c EXCEPT ![Tier(kind)] = Tail(@),
              !.cache_estimated_bytes = Max(0, @ - c.cache_item_sizes[<<kind, key>>])]

evict_first(c, kind) ==
    LET key == Head(c[Tier(kind)]) IN
    [c EXCEPT ![Tier(kind)] = Tail(@),
              !.cache_item_sizes = SizesWithout(@, <<kind, key>>),
              !.cache_estimated_bytes = Max(0, @ - c.cache_item_sizes[<<kind, key>>])]

\* One while loop of _enforce_memory_budget_locked over the tier of kind.
RECURSIVE budget_loop(_, _, _)
budget_loop(c, kind, target) ==
    IF c.cache_estimated_bytes > target /\ c[Tier(kind)] # <<>>
      THEN LET e == evict_first(c, kind) IN
           budget_loop([e EXCEPT ![LimitOf(kind)] =
                            Max(FloorOf(kind), Min(@, Len(e[Tier(kind)])))],
                       kind, target)
      ELSE c

\* _enforce_memory_budget_locked: the full-resolution tier first, then the
\* preview tier.
enforce_memory_budget_full_only(c, vm) ==
    IF vm.total <= 0 \/ vm.available <= 0 THEN c
    ELSE budget_loop(c, "full", Target(vm))
enforce_memory_budget_half_first(c, vm) ==
    IF vm.total <= 0 \/ vm.available <= 0 THEN c
    ELSE budget_loop(budget_loop(c, "half", Target(vm)), "full", Target(vm))

enforce_memory_budget_locked(c, vm) ==
    IF vm.total <= 0 \/ vm.available <= 0 THEN c
    ELSE budget_loop(budget_loop(c, "full", Target(vm)), "half", Target(vm))

\* _enforce_cache_limits_locked(kind, limit).
RECURSIVE limit_loop(_, _, _)
limit_loop(c, kind, limit) ==
    IF Len(c[Tier(kind)]) > limit THEN limit_loop(evict_first(c, kind), kind, limit)
    ELSE c
enforce_cache_limits_locked(c, kind, limit, vm) ==
    enforce_memory_budget_locked(limit_loop(c, kind, limit), vm)

\* _put_pil_full and _put_pil_half (the same code on their own tier): an
\* earlier entry of the path is popped and its size taken off, the image goes
\* to the end of the tier, its size is recorded and added, and the limits are
\* enforced.
put_pil(c, kind, path, size, vm) ==
    LET popped == IF Cached(c[Tier(kind)], path)
                    THEN [c EXCEPT ![Tier(kind)] = Without(@, path),
                                   !.cache_item_sizes = SizesWithout(@, <<kind, path>>),
                                   !.cache_estimated_bytes =
                                        Max(0, @ - c.cache_item_sizes[<<kind, path>>])]
                    ELSE c
        put == [popped EXCEPT ![Tier(kind)] = Append(@, path),
                              !.cache_item_sizes = SizesWith(@, <<kind, path>>, size),
                              !.cache_estimated_bytes = @ + size]
    IN enforce_cache_limits_locked(put, kind, put[LimitOf(kind)], vm)

\* _touch: move_to_end if present, then the head goes while the tier is over
\* its limit.
RECURSIVE trim(_, _)
trim(od, limit) == IF Len(od) > limit THEN trim(Tail(od), limit) ELSE od
touch(od, key, limit) ==
    trim(IF Cached(od, key) THEN Append(Without(od, key), key) ELSE od, limit)

\* _put_resized_pixmap: od[key] = pixmap keeps the place of a key that is
\* there and appends a new one; then _touch.
put_resized(c, path) ==
    [c EXCEPT !.resized_pixmap_cache =
        touch(IF Cached(@, path) THEN @ ELSE Append(@, path), path, ResizedLimit)]

\* What a step leaves of the order of last use: the key used in the step is
\* the last, and what the step evicted is gone.
Used(c, old, kind, key) ==
    [k \in {"full", "half", "resized"} |->
        LET moved == IF k = kind /\ Cached(c[Tier(k)], key)
                       THEN Append(Without(old.used[k], key), key)
                       ELSE old.used[k]
        IN SelectSeq(moved, LAMBDA x : Cached(c[Tier(k)], x))]

\* A decode of `kind` for path ended with an image of `size` while the memory
\* reading was vm: _worker_entry puts it into its cache.
put_pil_step(kind, path, size, vm) ==
    LET c == put_pil(cache, kind, path, size, vm) IN
    /\ size \in SizeChoices(kind)
    /\ cache' = [c EXCEPT !.used = Used(c, cache, kind, path),
                          !.budget = IF vm.total <= 0 \/ vm.available <= 0
                                       THEN NoBudget ELSE Target(vm)]
    /\ UNCHANGED <<session_vars, slots, loads, jobs>>

put_pil_full(path, size, vm) == put_pil_step("full", path, size, vm)
put_pil_half(path, size, vm) == put_pil_step("half", path, size, vm)

\* A render of path has ended: _put_resized_pixmap.  (The image it was
\* rendered from may have left its cache since.)
put_resized_pixmap(path) ==
    LET c == put_resized(cache, path) IN
    /\ cache' = [c EXCEPT !.used = Used(c, cache, "resized", path),
                          !.budget = NoBudget]
    /\ UNCHANGED <<session_vars, slots, loads, jobs>>

\* A read of one tier: OrderedDict.get, which leaves the tier as it is.
get_cached(kind, path) ==
    /\ Cached(cache[Tier(kind)], path)
    /\ cache.used[kind] # Used(cache, cache, kind, path)[kind]
    /\ cache' = [cache EXCEPT !.used = Used(cache, cache, kind, path),
                              !.budget = NoBudget]
    /\ UNCHANGED <<session_vars, slots, loads, jobs>>

get_pil_full_cached(path) == get_cached("full", path)
get_pil_half_cached(path) == get_cached("half", path)

\* _show_current reads the rendered output and the preview of the current
\* photo under one lock.
show_current(path) ==
    LET r == [cache EXCEPT !.used = Used(cache, cache, "resized", path)]
        h == [r EXCEPT !.used = Used(r, r, "half", path)] IN
    /\ h.used # cache.used
    /\ cache' = [h EXCEPT !.budget = NoBudget]
    /\ UNCHANGED <<session_vars, slots, loads, jobs>>

\* The session at rest: nothing rated, nothing queued.
IdleSession ==
    /\ EXIFTOOL_PATH = TRUE
    /\ sidecar = [i \in Photos |-> NoSidecar]
    /\ photo = [i \in Photos |-> NewPhoto]
    /\ taskq = {}
    /\ unfinished = 0
    /\ task_counter = 0
    /\ pending_tasks = {}
    /\ loader_stop = FALSE
    /\ running = {}
    /\ exited = 0
    /\ done_events = {}
    /\ signals = <<>>
    /\ ctl = IdleCtl
    /\ history = [flushed |-> "no", last_mutation |-> [i \in Photos |-> EmptyDict],
                  queued_writes |-> {}]

CacheInit == ImageInit /\ IdleSession

CacheNext ==
    \/ \E path \in CachePaths, size \in SizeChoices("full"), vm \in VmChoices :
            put_pil_full(path, size, vm)
    \/ \E path \in CachePaths, size \in SizeChoices("half"), vm \in VmChoices :
            put_pil_half(path, size, vm)
    \/ \E path \in CachePaths : put_resized_pixmap(path)
    \/ \E path \in CachePaths : get_pil_full_cached(path)
    \/ \E path \in CachePaths : get_pil_half_cached(path)
    \/ \E path \in CachePaths : show_current(path)

CacheSpec == CacheInit /\ [][CacheNext]_vars

\* ================================================= full-resolution decodes
\* _worker_entry(path, 'full'): _acquire_full_slot, the decode, and
\* _release_full_slot in the finally.  slots counts the loader threads at each
\* of these places: acquiring are in the loop of _acquire_full_slot, decoding
\* hold a slot and are in load_full_pil, unslotted are in load_full_pil after
\* _acquire_full_slot returned without a slot.  user_hot is _is_user_hot(300):
\* an input event came within the last 300 ms.
WorkerCounts == NumWorkers..MaxSlotWorkers

\* limit = 1 if self._is_user_hot(300.0) else max(1, min(3, num_workers // 2)).
slot_limit(hot, num_workers) ==
    IF hot THEN 1 ELSE Max(1, Min(IdleSlotCap, num_workers \div 2))

InFullEntry == slots.acquiring + slots.decoding + slots.unslotted

\* A loader thread takes a full-resolution decode off the queue and enters
\* _acquire_full_slot.  (Once the stop flag is raised the queue is empty and
\* stays so: cleanup has joined it and posts nothing.)
worker_entry_full ==
    /\ ~loader_stop
    /\ InFullEntry < slots.num_workers
    /\ slots' = [slots EXCEPT !.acquiring = @ + 1]
    /\ UNCHANGED <<session_vars, cache, loads, jobs>>

\* One turn of the loop of _acquire_full_slot that finds a slot free (a turn
\* that finds none sleeps and changes nothing).
acquire_full_slot ==
    /\ slots.acquiring > 0
    /\ ~loader_stop
    /\ slots.full_running < slot_limit(slots.user_hot, slots.num_workers)
    /\ slots' = [slots EXCEPT !.full_running = @ + 1, !.acquiring = @ - 1,
                              !.decoding = @ + 1]
    /\ UNCHANGED <<session_vars, cache, loads, jobs>>

\* while not self._loader_stop: the loop ends without a slot once the stop
\* flag is raised, and _worker_entry goes on to decode.  (No thread is in the
\* loop when cleanup raises the flag, so this turn is never taken.)
acquire_full_slot_stopped ==
    /\ slots.acquiring > 0
    /\ loader_stop
    /\ slots' = [slots EXCEPT !.acquiring = @ - 1, !.unslotted = @ + 1]
    /\ UNCHANGED <<session_vars, cache, loads, jobs>>

\* _release_full_slot.
release_full_slot_skip(n) == n

release_full_slot(n) == Max(0, n - 1)

\* The decode of a thread that holds a slot ends: the finally releases.
full_decode_ends ==
    /\ slots.decoding > 0
    /\ slots' = [slots EXCEPT !.decoding = @ - 1,
                              !.full_running = release_full_slot(@)]
    /\ UNCHANGED <<session_vars, cache, loads, jobs>>

\* The decode of a thread without a slot ends: the finally releases all the same.
unslotted_decode_ends ==
    /\ slots.unslotted > 0
    /\ slots' = [slots EXCEPT !.unslotted = @ - 1,
                              !.full_running = release_full_slot(@)]
    /\ UNCHANGED <<session_vars, cache, loads, jobs>>

\* _note_user_input: the user navigates.
note_user_input ==
    /\ ~slots.user_hot
    /\ slots' = [slots EXCEPT !.user_hot = TRUE]
    /\ UNCHANGED <<session_vars, cache, loads, jobs>>

\* 300 ms pass without an input event.
input_settles ==
    /\ slots.user_hot
    /\ slots' = [slots EXCEPT !.user_hot = FALSE]
    /\ UNCHANGED <<session_vars, cache, loads, jobs>>

\* cleanup raises the stop flag, after _taskq.join() has returned: no loader
\* thread is inside a task.
raise_loader_stop ==
    /\ ~loader_stop
    /\ InFullEntry = 0
    /\ loader_stop' = TRUE
    /\ UNCHANGED <<photo, sidecar, EXIFTOOL_PATH, taskq, unfinished, task_counter,
                   pending_tasks, running, exited, done_events, signals, ctl,
                   history, image_vars>>

\* __init__ starts max(2, min(32, cpu_count - 1)) loader threads, or as many
\* as its caller asks for.
SlotInit ==
    /\ IdleSession
    /\ cache = EmptyCache
    /\ loads = NoLoads
    /\ jobs = NoJobs
    /\ slots \in {[FreeSlots EXCEPT !.num_workers = n] : n \in WorkerCounts}

SlotNext ==
    \/ worker_entry_full
    \/ acquire_full_slot
    \/ full_decode_ends
    \/ note_user_input
    \/ input_settles
    \/ raise_loader_stop

SlotSpec == SlotInit /\ [][SlotNext]_vars

\* ========================================================= failure notices
\* A preview or full-resolution decode ends in a loader thread, which emits
\* load_failed when there is no image and loaded in every case; the control
\* thread runs _on_load_failed and _on_loaded in the order of emission.
LoadSignal(sig, path) == [sig |-> sig, path |-> path, data |-> EmptyDict]

\* _worker_entry(path, kind) for kind 'half' or 'full': ok is false when
\* load_half_pil or load_full_pil returned None.
decode_ends(path, kind, ok) ==
    /\ loads.decodes < MaxDecodes
    /\ loads' = [loads EXCEPT !.decodes = @ + 1]
    /\ cache' = IF ok
                  THEN LET c == put_pil(cache, kind, path, MaxImageSize, NoVm) IN
                       [c EXCEPT !.used = Used(c, cache, kind, path), !.budget = NoBudget]
                  ELSE cache
    /\ signals' = IF ok THEN Append(signals, LoadSignal("loaded", path))
                  ELSE signals \o <<LoadSignal("load_failed", path),
                                    LoadSignal("loaded", path)>>
    /\ UNCHANGED <<photo, sidecar, EXIFTOOL_PATH, taskq, unfinished, task_counter,
                   pending_tasks, loader_stop, running, exited, done_events, ctl,
                   history, slots, jobs>>

\* _on_loaded: the path leaves _load_failures when an image of it is cached.
failures_after_loaded(failures, c, path) ==
    IF Cached(c.pil_full_cache, path) \/ Cached(c.pil_half_cache, path)
      THEN failures \ {path} ELSE failures

on_loaded ==
    /\ signals # <<>>
    /\ Head(signals).sig = "loaded"
    /\ loads' = [loads EXCEPT !.load_failures =
                    failures_after_loaded(@, cache, Head(signals).path)]
    /\ signals' = Tail(signals)
    /\ UNCHANGED <<photo, sidecar, EXIFTOOL_PATH, taskq, unfinished, task_counter,
                   pending_tasks, loader_stop, running, exited, done_events, ctl,
                   history, cache, slots, jobs>>

\* _on_load_failed: a toast, unless the path is in _load_failures.
on_load_failed ==
    /\ signals # <<>>
    /\ Head(signals).sig = "load_failed"
    /\ LET path == Head(signals).path IN
        loads' = IF path \in loads.load_failures THEN loads
                 ELSE [loads EXCEPT !.load_failures = @ \cup {path},
                                    !.shown[path] = @ + 1]
    /\ signals' = Tail(signals)
    /\ UNCHANGED <<photo, sidecar, EXIFTOOL_PATH, taskq, unfinished, task_counter,
                   pending_tasks, loader_stop, running, exited, done_events, ctl,
                   history, cache, slots, jobs>>

LoadInit == ImageInit /\ IdleSession

LoadNext ==
    \/ \E path \in Photos, kind \in {"half", "full"}, ok \in BOOLEAN :
            decode_ends(path, kind, ok)
    \/ on_loaded
    \/ on_load_failed

LoadSpec == LoadInit /\ [][LoadNext]_vars

\* ======================================================= decodes replanned
\* The replan and the filmstrip read the caches to decide which decodes to
\* post; the loader threads run the decodes, which cache an image or fail.
HalfCached == {p \in PlanPhotos : Cached(cache.pil_half_cache, p)}
FullCached == {p \in PlanPhotos : Cached(cache.pil_full_cache, p)}

\* _schedule_loading_plan_fire, with the caches as they are.
schedule_plan_from_caches(cur) ==
    /\ task_counter + Cardinality(PlanKeys(WholePlan(cur, HalfCached, FullCached)))
            <= MaxRetryTasks
    /\ schedule_whole_plan_fire(cur, HalfCached, FullCached)

\* _filmstrip_loader for a thumbnail that is not cached, of a photo whose
\* preview is not cached either: _enqueue_load(path, 'half', priority=-100).
filmstrip_loader(path) ==
    /\ ctl.pc = "idle"
    /\ path \notin HalfCached
    /\ task_counter < MaxRetryTasks
    /\ SetQueue(enqueue_key(QueueState, HalfFocusPriority, [path |-> path, kind |-> "half"]))
    /\ UNCHANGED <<photo, sidecar, EXIFTOOL_PATH, loader_stop, running, exited,
                   done_events, signals, ctl, history, image_vars>>

\* _worker_entry(path, kind) for kind 'half' or 'full' returns to _wrap: the
\* image is cached when there is one (ok), the signals are emitted, the key
\* leaves the pending set and _loader_loop calls task_done.
decode_task_finish(r, ok) ==
    /\ r.pc = "load"
    /\ r.success
    /\ r.task.kind \in {"half", "full"}
    /\ cache' = IF ok
                  THEN LET c == put_pil(cache, r.task.kind, r.task.path, MaxImageSize, NoVm) IN
                       [c EXCEPT !.used = Used(c, cache, r.task.kind, r.task.path),
                                 !.budget = NoBudget]
                  ELSE cache
    /\ loads' = IF ok THEN loads ELSE [loads EXCEPT !.failed = @ \cup {r.task.key}]
    /\ signals' = IF ok THEN Append(signals, LoadSignal("loaded", r.task.path))
                  ELSE signals \o <<LoadSignal("load_failed", r.task.path),
                                    LoadSignal("loaded", r.task.path)>>
    /\ pending_tasks' = wrap_finally(pending_tasks, r)
    /\ unfinished' = task_done(unfinished)
    /\ running' = running \ {r}
    /\ UNCHANGED <<photo, sidecar, EXIFTOOL_PATH, taskq, task_counter, loader_stop,
                   exited, done_events, ctl, history, slots, jobs>>

\* A render, or a decode that raised, ends in _wrap with no image and no signal.
other_load_finish(r) ==
    /\ r.task.kind = "resized" \/ ~r.success
    /\ load_task_finish(r)

RetryInit == ImageInit /\ IdleSession

RetryNext ==
    \/ \E cur \in PlanPhotos : schedule_plan_from_caches(cur)
    \/ \E path \in PlanPhotos : filmstrip_loader(path)
    \/ flush_queue_step
    \/ flush_queue_end
    \/ apply_task_plan_enqueue_one
    \/ apply_task_plan_return
    \/ loader_run_xmp
    \/ loader_run_load
    \/ \E r \in running : xmp_task_finish(r)
    \/ \E r \in running : other_load_finish(r)
    \/ \E r \in running, ok \in BOOLEAN : decode_task_finish(r, ok)
    \/ ctl.pc = "idle" /\ on_loaded
    \/ ctl.pc = "idle" /\ on_load_failed

RetrySpec == RetryInit /\ [][RetryNext]_vars

\* ========================================================== the focus item
\* The user moves to a photo, _show_current posts the tasks of the focus item
\* and of the filmstrip, and the settle timer replans for it.  The caches a
\* handler meets are an input of the handler, as in PlanSpec.
RECURSIVE EnqueueKeys(_, _)
EnqueueKeys(q, entries) ==
    IF entries = <<>> THEN q
    ELSE EnqueueKeys(enqueue_key(q, Head(entries).priority, Head(entries).key),
                     Tail(entries))

\* The _enqueue calls of _show_current for the focus item i, in their order:
\* _load_xmp_if_needed for i and then for the visible photos, _enqueue_meta
\* from _update_metadata when _meta_cache has nothing, the thumbnails of the
\* filmstrip items, and the render when the preview is cached and the
\* rendered output is not.
ShowCurrentEntries(i, ph, half_cached, meta_cached, pixmap_cached) ==
    LET visible == <<i>> \o [j \in 1..NumPlanPhotos |-> j]
        reads == SelectSeq(visible, LAMBDA j : ~ph[j].xmp_loaded)
    IN [n \in 1..Len(reads) |-> PlanEntry(XmpNeededPriority, reads[n], "xmp")]
         \o (IF meta_cached THEN <<>> ELSE <<PlanEntry(MetaPriority, i, "meta")>>)
         \o [j \in 1..NumPlanPhotos |-> PlanEntry(ThumbPriority, j, "thumb")]
         \o (IF i \in half_cached /\ ~pixmap_cached
               THEN <<PlanEntry(ResizedFocusPriority, i, "resized")>> ELSE <<>>)

\* next_photo, prev_photo and a click in the filmstrip: self.idx = i,
\* _show_current(), which also cancels the full-delay timer, and
\* _heavy_load_scheduler.start().
navigate(i) ==
    /\ ctl.pc = "idle"
    /\ \E half_cached \in CachedChoices, meta_cached \in BOOLEAN, pixmap_cached \in BOOLEAN :
        LET q == EnqueueKeys(QueueState,
                    ShowCurrentEntries(i, photo, half_cached, meta_cached, pixmap_cached))
        IN /\ q.task_counter <= MaxFocusTasks
           /\ SetQueue(q)
    /\ photo' = [j \in Photos |-> [photo[j] EXCEPT !.xmp_loaded = TRUE]]
    /\ jobs' = [jobs EXCEPT !.nav = [idx |-> i, scheduled |-> TRUE,
                                     full_wait_target |-> 0,
                                     full_delay_active |-> FALSE]]
    /\ UNCHANGED <<sidecar, EXIFTOOL_PATH, loader_stop, running, exited, done_events,
                   signals, ctl, history, cache, slots, loads>>

\* _heavy_load_scheduler fires: _schedule_heavy_load calls
\* _schedule_loading_plan_fire for the current photo, which starts the
\* full-delay timer when the full-resolution image is not cached.
schedule_heavy_load ==
    /\ jobs.nav.scheduled
    /\ \E half_cached \in CachedChoices, full_cached \in CachedChoices :
        /\ task_counter
              + Cardinality(PlanKeys(WholePlan(jobs.nav.idx, half_cached, full_cached)))
                <= MaxFocusTasks
        /\ whole_plan_start(jobs.nav.idx, half_cached, full_cached)
        /\ jobs' = [jobs EXCEPT
                      !.nav.scheduled = FALSE,
                      !.nav.full_wait_target =
                            IF jobs.nav.idx \in full_cached THEN @ ELSE jobs.nav.idx,
                      !.nav.full_delay_active =
                            IF jobs.nav.idx \in full_cached THEN @ ELSE TRUE]
    /\ UNCHANGED <<cache, slots, loads>>

\* _on_full_delay_fire: the full-resolution decode of the current photo.
on_full_delay_fire ==
    /\ ctl.pc = "idle"
    /\ jobs.nav.full_delay_active
    /\ \E full_cached \in CachedChoices :
        LET posts == /\ jobs.nav.full_wait_target # 0
                     /\ jobs.nav.full_wait_target = jobs.nav.idx
                     /\ jobs.nav.idx \notin full_cached
            q == IF posts
                   THEN enqueue_key(QueueState, FullFocusPriority,
                                    [path |-> jobs.nav.idx, kind |-> "full"])
                   ELSE QueueState
        IN /\ q.task_counter <= MaxFocusTasks
           /\ SetQueue(q)
    /\ jobs' = [jobs EXCEPT !.nav.full_delay_active = FALSE]
    /\ UNCHANGED <<photo, sidecar, EXIFTOOL_PATH, loader_stop, running, exited,
                   done_events, signals, ctl, history, cache, slots, loads>>

\* get returns a thumbnail build or a metadata read of _worker_entry.
loader_run_build ==
    /\ Cardinality(running) + exited < NumWorkers
    /\ taskq # {}
    /\ QueueHead(taskq).kind \in {"meta", "thumb"}
    /\ running' = running \cup {InLoad(QueueHead(taskq), TRUE)}
    /\ taskq' = taskq \ {QueueHead(taskq)}
    /\ UNCHANGED <<photo, sidecar, EXIFTOOL_PATH, unfinished, task_counter,
                   pending_tasks, loader_stop, exited, done_events, signals, ctl,
                   history, image_vars>>

FocusInit == ImageInit /\ IdleSession

FocusNext ==
    \/ \E i \in PlanPhotos : navigate(i)
    \/ schedule_heavy_load
    \/ on_full_delay_fire
    \/ flush_queue_step
    \/ flush_queue_end
    \/ apply_task_plan_enqueue_one
    \/ apply_task_plan_return
    \/ loader_run_xmp
    \/ loader_run_load
    \/ loader_run_build
    \/ \E r \in running : xmp_task_finish(r)
    \/ \E r \in running : load_task_finish(r)

FocusSpec == FocusInit /\ [][FocusNext]_vars

\* ========================================================= _apply_task_plan
\* _apply_task_plan on plans of preview decodes in which a key can come up
\* more than once, with the priorities plan_load is called with; a preview
\* decode the filmstrip has posted can be pending when the plan is applied.
DedupEntries ==
    {PlanEntry(pr, p, "half") :
        pr \in {HalfFocusPriority, HALF_BASE + 2, HALF_BASE + 4}, p \in PlanPhotos}
DedupPlans == UNION {[1..n -> DedupEntries] : n \in 1..MaxPlanLen}

apply_task_plan_of(plan) ==
    /\ task_counter + Cardinality(PlanKeys(plan)) <= MaxDedupTasks
    /\ task_plan_start(plan, 0)
    /\ UNCHANGED image_vars

filmstrip_posts(path) ==
    /\ task_counter < MaxDedupTasks
    /\ filmstrip_loader(path)

DedupInit == ImageInit /\ IdleSession

DedupNext ==
    \/ \E plan \in DedupPlans : apply_task_plan_of(plan)
    \/ \E path \in PlanPhotos : filmstrip_posts(path)
    \/ flush_queue_step
    \/ flush_queue_end
    \/ apply_task_plan_enqueue_one
    \/ apply_task_plan_return
    \/ loader_run_load
    \/ \E r \in running : load_task_finish(r)

DedupSpec == DedupInit /\ [][DedupNext]_vars

\* ================================================================ export
\* ExportWorker._sync mirrors the selected photos of the catalog folder into
\* the RAW and JPEG output folders.  A file is its base name and extension.
\* The catalog folder holds three RAW files, two of them with one base name,
\* and the sidecar a.xmp; a folder of the output is a function from the files
\* it can hold to "absent", "old" (size differs or older than the source: to
\* be copied again) or "same".
File(base, ext) == [base |-> base, ext |-> ext]
RawExts == {"cr3", "dng"}
CatalogOrders == {<<File("a", "cr3"), File("a", "dng"), File("b", "cr3")>>,
                  <<File("a", "dng"), File("a", "cr3"), File("b", "cr3")>>}
RootXmp == {File("a", "xmp")}
RootJpegChoices == {{}, {File("a", "jpg")}}
RawOutFiles == {File("a", "cr3"), File("a", "dng"), File("b", "cr3"),
                File("a", "xmp"), File("b", "xmp")}
JpegOutFiles == {File("a", "jpg")}
FileStates == {"absent", "old", "same"}

\* _list_paths_by_basename: the files a folder holds.
Listed(folder) == {f \in DOMAIN folder : folder[f] # "absent"}
BasesOf(files) == {f.base : f \in files}

\* selected_raw_by_base: a dict comprehension over the selected paths, so of
\* two paths with one base name the later one stays.
selected_raw_by_base(paths) ==
    {paths[n] : n \in {m \in DOMAIN paths :
                        \A k \in DOMAIN paths : paths[k].base = paths[m].base => k <= m}}

\* The sidecar path of a RAW path: os.path.splitext(path)[0] + ".xmp".
XmpOf(f) == File(f.base, "xmp")

\* _needs_copy(src, dst).
needs_copy(folder, f) == folder[f] # "same"

\* The copy tasks of _sync: for each base of selected_raw_by_base, in the order
\* the bases first come in the selected paths, the RAW file and its sidecar;
\* then the JPEGs.
RECURSIVE RawTasks(_, _, _, _)
RawTasks(paths, n, chosen, raw_out) ==
    IF n > Len(paths) THEN <<>>
    ELSE LET first == \A k \in 1..(n - 1) : paths[k].base # paths[n].base
             src == CHOOSE f \in chosen : f.base = paths[n].base IN
         (IF ~first THEN <<>>
          ELSE (IF needs_copy(raw_out, src) THEN <<[file |-> src, kind |-> "raw"]>>
                ELSE <<>>)
               \o (IF XmpOf(src) \in RootXmp /\ needs_copy(raw_out, XmpOf(src))
                     THEN <<[file |-> XmpOf(src), kind |-> "xmp"]>> ELSE <<>>))
         \o RawTasks(paths, n + 1, chosen, raw_out)

desired_jpg_bases(e) == BasesOf(selected_raw_by_base(e.selected_raw_paths))
                            \cap BasesOf(e.root_jpegs)

JpegTasks(e) ==
    IF File("a", "jpg") \in e.root_jpegs /\ "a" \in desired_jpg_bases(e)
         /\ needs_copy(e.jpeg_out, File("a", "jpg"))
      THEN <<[file |-> File("a", "jpg"), kind |-> "jpeg"]>> ELSE <<>>

\* An export is running in its thread.
ExportRunning == jobs.export.pc \in {"started", "remove", "copy"}

\* The states of the folders an export can meet.
ExportStarts ==
    {[NoExport EXCEPT !.catalog = order, !.root_jpegs = rj, !.raw_out = ro,
                      !.jpeg_out = jo] :
        order \in CatalogOrders, rj \in RootJpegChoices,
        ro \in [RawOutFiles -> FileStates], jo \in [JpegOutFiles -> FileStates]}

\* AppWindow._perform_export: the paths of the photos with p.selected, in
\* catalog order, go to a new ExportWorker whose thread is started.
perform_export(sel) ==
    /\ jobs.export.pc = "idle"
    /\ jobs' = [jobs EXCEPT !.export.pc = "started",
                            !.export.selected_raw_paths =
                                SelectSeq(jobs.export.catalog, LAMBDA f : f \in sel)]
    /\ UNCHANGED <<session_vars, cache, slots, loads>>

\* The cancel button of the progress dialog: ExportWorker.request_cancel.
export_request_cancel ==
    /\ ExportRunning
    /\ ~jobs.export.cancel_requested
    /\ jobs' = [jobs EXCEPT !.export.cancel_requested = TRUE]
    /\ UNCHANGED <<session_vars, cache, slots, loads>>

\* _sync up to the first cancel check: the folders are listed.
sync_list ==
    LET e == jobs.export
        keep == BasesOf(selected_raw_by_base(e.selected_raw_paths)) IN
    /\ e.pc = "started"
    /\ jobs' = IF e.cancel_requested THEN [jobs EXCEPT !.export.pc = "canceled"]
               ELSE [jobs EXCEPT !.export.pc = "remove",
                                 !.export.to_remove =
                                    {f \in Listed(e.raw_out) : f.base \notin keep}
                                    \cup {f \in Listed(e.jpeg_out) :
                                            f.base \notin desired_jpg_bases(e)}]
    /\ UNCHANGED <<session_vars, cache, slots, loads>>

\* One turn of the removal loops, the RAW folder first: return None on cancel,
\* else os.remove(dst_path), whose failure (ok false) is passed over.
sync_remove(f, ok) ==
    LET e == jobs.export IN
    /\ e.pc = "remove"
    /\ f \in e.to_remove
    /\ f \in JpegOutFiles => e.to_remove \subseteq JpegOutFiles
    /\ jobs' = IF e.cancel_requested THEN [jobs EXCEPT !.export.pc = "canceled"]
               ELSE [jobs EXCEPT
                        !.export.to_remove = @ \ {f},
                        !.export.raw_out = IF ok /\ f \in RawOutFiles
                                             THEN [@ EXCEPT ![f] = "absent"] ELSE @,
                        !.export.jpeg_out = IF ok /\ f \in JpegOutFiles
                                              THEN [@ EXCEPT ![f] = "absent"] ELSE @]
    /\ UNCHANGED <<session_vars, cache, slots, loads>>

\* The removal loops are over: the copy tasks are listed.
sync_plan_copies ==
    LET e == jobs.export IN
    /\ e.pc = "remove"
    /\ e.to_remove = {}
    /\ jobs' = [jobs EXCEPT !.export.pc = "copy",
                            !.export.tasks =
                                RawTasks(e.selected_raw_paths, 1,
                                         selected_raw_by_base(e.selected_raw_paths),
                                         e.raw_out)
                                \o JpegTasks(e)]
    /\ UNCHANGED <<session_vars, cache, slots, loads>>

\* One turn of the copy loop: return None on cancel, else shutil.copy2, whose
\* failure (ok false) is raised as RuntimeError and ends run with error.
sync_copy(ok) ==
    LET e == jobs.export
        f == Head(e.tasks).file IN
    /\ e.pc = "copy"
    /\ e.tasks # <<>>
    /\ jobs' = IF e.cancel_requested THEN [jobs EXCEPT !.export.pc = "canceled"]
               ELSE IF ~ok THEN [jobs EXCEPT !.export.pc = "error"]
               ELSE [jobs EXCEPT
                        !.export.tasks = Tail(@),
                        !.export.raw_out = IF f \in RawOutFiles
                                             THEN [@ EXCEPT ![f] = "same"] ELSE @,
                        !.export.jpeg_out = IF f \in JpegOutFiles
                                              THEN [@ EXCEPT ![f] = "same"] ELSE @]
    /\ UNCHANGED <<session_vars, cache, slots, loads>>

\* The copy loop is over: _sync returns its result and run emits finished,
\* or canceled when cancel was requested.
sync_return ==
    LET e == jobs.export IN
    /\ e.pc = "copy"
    /\ e.tasks = <<>>
    /\ jobs' = [jobs EXCEPT !.export.pc = IF e.cancel_requested THEN "canceled"
                                          ELSE "finished"]
    /\ UNCHANGED <<session_vars, cache, slots, loads>>

ExportInit ==
    /\ IdleSession
    /\ cache = EmptyCache /\ slots = FreeSlots /\ loads = NoLoads
    /\ jobs \in {[NoJobs EXCEPT !.export = e] : e \in ExportStarts}

ExportNext ==
    \/ \E order \in CatalogOrders :
        \E sel \in SUBSET {order[n] : n \in DOMAIN order} : perform_export(sel)
    \/ export_request_cancel
    \/ sync_list
    \/ \E f \in RawOutFiles \cup JpegOutFiles, ok \in BOOLEAN : sync_remove(f, ok)
    \/ sync_plan_copies
    \/ \E ok \in BOOLEAN : sync_copy(ok)
    \/ sync_return

ExportSpec == ExportInit /\ [][ExportNext]_vars

\* ============================================================ bulk analysis
\* AnalysisWorker.run goes through its photos in its own thread; the control
\* thread can request cancel, and applies the results when finished arrives.
\* A payload is its status, "ok" or "error".

\* The photos at the positions of a set, in ascending order.
RECURSIVE Ascending(_)
Ascending(set) ==
    IF set = {} THEN <<>>
    ELSE LET least == CHOOSE a \in set : \A b \in set : a <= b IN
         <<least>> \o Ascending(set \ {least})

Overlay(d, e) == [k \in DOMAIN d \cup DOMAIN e |-> IF k \in DOMAIN e THEN e[k] ELSE d[k]]

\* _start_analysis_processing: a worker for the pending photos, when there
\* are any and no worker is running.
start_analysis_processing ==
    LET a == jobs.analysis IN
    /\ a.pc = "idle"
    /\ a.analysis_pending_paths # {}
    /\ jobs' = [jobs EXCEPT !.analysis =
                    [a EXCEPT !.pc = "running", !.cancel_requested = FALSE,
                              !.photos = Ascending(a.analysis_pending_paths),
                              !.index = 0, !.current = 0, !.results = EmptyDict,
                              !.delivered = EmptyDict, !.canceled = FALSE,
                              !.processed = EmptyDict]]
    /\ UNCHANGED <<session_vars, cache, slots, loads>>

\* _cancel_analysis_processing while there is a worker: request_cancel.
cancel_analysis_processing ==
    /\ jobs.analysis.pc \in {"running", "emitted"}
    /\ ~jobs.analysis.cancel_requested
    /\ jobs' = [jobs EXCEPT !.analysis.cancel_requested = TRUE]
    /\ UNCHANGED <<session_vars, cache, slots, loads>>

\* The head of the loop of run: the flag is not set and a photo is left, so
\* the worker goes into _process_photo with it.
analysis_next_photo ==
    LET a == jobs.analysis IN
    /\ a.pc = "running"
    /\ a.current = 0
    /\ ~a.cancel_requested
    /\ a.index < Len(a.photos)
    /\ jobs' = [jobs EXCEPT !.analysis.current = a.photos[a.index + 1]]
    /\ UNCHANGED <<session_vars, cache, slots, loads>>

\* _process_photo returns its payload or raises, and then the payload is that
\* of _build_error_payload; either way results[photo.path] = payload.
analysis_photo_done(status) ==
    LET a == jobs.analysis IN
    /\ a.pc = "running"
    /\ a.current # 0
    /\ jobs' = [jobs EXCEPT !.analysis.results = Overlay(@, a.current :> status),
                            !.analysis.processed = Overlay(@, a.current :> status),
                            !.analysis.index = @ + 1,
                            !.analysis.current = 0]
    /\ UNCHANGED <<session_vars, cache, slots, loads>>

\* The loop ends, by break or at the last photo: finished.emit(results, canceled).
analysis_emit_finished ==
    LET a == jobs.analysis IN
    /\ a.pc = "running"
    /\ a.current = 0
    /\ a.cancel_requested \/ a.index = Len(a.photos)
    /\ jobs' = [jobs EXCEPT !.analysis.pc = "emitted",
                            !.analysis.delivered = a.results,
                            !.analysis.canceled = a.cancel_requested]
    /\ UNCHANGED <<session_vars, cache, slots, loads>>

\* _on_analysis_finished: the results it applies (`if results:`).
results_to_apply_unless_canceled(results, canceled) ==
    IF canceled THEN EmptyDict ELSE results
results_to_apply(results, canceled) == results

\* _on_analysis_finished: the worker is let go, and _apply_analysis_results
\* sets the photos' analysis fields, takes the paths out of the pending set
\* and updates the store.
on_analysis_finished ==
    LET a == jobs.analysis
        updated == results_to_apply(a.delivered, a.canceled) IN
    /\ a.pc = "emitted"
    /\ jobs' = [jobs EXCEPT !.analysis.pc = "idle",
                            !.analysis.analysis_status = Overlay(@, updated),
                            !.analysis.analysis_pending_paths = @ \ DOMAIN updated,
                            !.analysis.store = Overlay(@, updated)]
    /\ UNCHANGED <<session_vars, cache, slots, loads>>

AnalysisInit == ImageInit /\ IdleSession

AnalysisNext ==
    \/ start_analysis_processing
    \/ cancel_analysis_processing
    \/ analysis_next_photo
    \/ \E status \in {"ok", "error"} : analysis_photo_done(status)
    \/ analysis_emit_finished
    \/ on_analysis_finished

AnalysisSpec == AnalysisInit /\ [][AnalysisNext]_vars

\* ===================================================== a write completes
\* The finally block of _write_task_with_cleanup as a function of its
\* arguments and of the photo it is given: the specification CompletionSpec
\* starts with one write of photo 1 inside its try block, for every version
\* the task can carry and every value of the photo's flags and versions.
Versions == 0..MaxMutations

CompletionPhotos ==
    {[NewPhoto EXCEPT !.is_dirty = d, !.is_saving = sv, !.version = v,
                      !.saving_version = w, !.xmp_loaded = TRUE] :
        d \in BOOLEAN, sv \in BOOLEAN, v \in Versions, w \in Versions}

CompletionInit ==
    /\ ImageInit
    /\ EXIFTOOL_PATH = TRUE
    /\ sidecar = [i \in Photos |-> NoSidecar]
    /\ \E p \in CompletionPhotos : photo = [i \in Photos |-> IF i = 1 THEN p ELSE NewPhoto]
    /\ taskq = {}
    /\ unfinished = 1
    /\ task_counter = 1
    /\ pending_tasks = {}
    /\ loader_stop = FALSE
    /\ \E version \in Versions, success \in BOOLEAN, has_event \in BOOLEAN :
        running = {InWrite(SaveTask(1, 1, Payload(NewPhoto), version, has_event), success)}
    /\ exited = 0
    /\ done_events = {}
    /\ signals = <<>>
    /\ ctl = IdleCtl
    /\ history = [flushed |-> "save", last_mutation |-> [i \in Photos |-> EmptyDict],
                  queued_writes |-> {}]

CompletionNext ==
    \/ \E r \in running : write_task_complete(r)
    \/ \E r \in running : write_task_emit(r)
    \/ on_xmp_saved
    \/ on_xmp_save_failed

CompletionSpec == CompletionInit /\ [][CompletionNext]_vars

\* ================================================== selecting tagged photos
\* The sessions of Spec in which the sidecar of photo 1 carries a rating and a
\* label at start and the user only selects and unselects: no step mutates a
\* rating or a colour label locally.
SelectInit == Init /\ sidecar[1] = TaggedSidecar

SelectNext ==
    \/ \E i \in Photos : toggle_select(i)
    \/ \E i \in Photos : unselect_current(i)
    \/ \E wait \in BOOLEAN : save_all_dirty_files(wait)
    \/ wait_return
    \/ \E cur \in {0} \cup Photos : schedule_loading_plan_fire(cur)
    \/ flush_queue_step
    \/ flush_queue_end
    \/ apply_task_plan_enqueue
    \/ cleanup
    \/ cleanup_stop
    \/ on_xmp_ready
    \/ on_xmp_saved
    \/ on_xmp_save_failed
    \/ loader_run_write({TRUE, FALSE})
    \/ loader_run_xmp
    \/ \E r \in running : write_task_complete(r)
    \/ \E r \in running : write_task_emit(r)
    \/ \E r \in running : xmp_task_finish(r)
    \/ loader_exit

SelectSpec == SelectInit /\ [][SelectNext]_vars

\* ================================================================ autosave
\* The sessions in which the window stays open, so that autosave_timer and
\* autosave_interval_timer keep calling save_all_dirty_files, and in which
\* the sidecar writes fail only finitely often.  The user mutates and a write
\* fails only while _task_counter has room for the writes still owed: one for
\* each photo that is dirty or whose failed write has yet to mark it dirty.
FailedInFlight ==
    {r.task.path : r \in {x \in running : x.task.kind = "save" /\ x.pc = "complete"
                                            /\ ~x.success}}
WritesOwed(ph, extra) ==
    Cardinality({i \in Photos : ph[i].is_dirty} \cup FailedInFlight \cup extra)

autosave_mutation ==
    /\ \/ \E i \in Photos, r \in RatingInputs : set_rating(i, r)
       \/ \E i \in Photos, l \in LabelInputs : set_color_label(i, l)
       \/ \E i \in Photos : toggle_select(i)
       \/ \E i \in Photos : unselect_current(i)
    /\ task_counter' + WritesOwed(photo', {}) <= MaxTasks

autosave_write_fails ==
    /\ taskq # {}
    /\ task_counter + WritesOwed(photo, {QueueHead(taskq).path}) <= MaxTasks
    /\ loader_run_write({FALSE})

AutosaveNext ==
    \/ autosave_mutation
    \/ \E wait \in BOOLEAN : save_all_dirty_files(wait)
    \/ wait_return
    \/ on_xmp_ready
    \/ on_xmp_saved
    \/ on_xmp_save_failed
    \/ loader_run_write({TRUE})
    \/ autosave_write_fails
    \/ loader_run_xmp
    \/ \E r \in running : write_task_complete(r)
    \/ \E r \in running : write_task_emit(r)
    \/ \E r \in running : xmp_task_finish(r)

\* The timers keep firing, the loader threads keep running and a wait that
\* can end ends.
AutosaveFairness ==
    /\ WF_vars(save_all_dirty_files(FALSE))
    /\ WF_vars(wait_return)
    /\ WF_vars(loader_run_write({TRUE}) \/ autosave_write_fails)
    /\ WF_vars(loader_run_xmp)
    /\ WF_vars(\E r \in running : write_task_complete(r))
    /\ WF_vars(\E r \in running : write_task_emit(r))
    /\ WF_vars(\E r \in running : xmp_task_finish(r))

AutosaveSpec == Init /\ [][AutosaveNext]_vars /\ AutosaveFairness

\* ================================================================== cleanup
\* The session up to its end: the user rates and labels, full-resolution
\* decodes are posted and run under the decode slots, and cleanup saves,
\* flushes the queue, joins it, raises the stop flag and lets the loader
\* threads go.

\* _enqueue_load(path, 'full', -90), as _on_full_delay_fire calls it.
enqueue_load_full(path) ==
    /\ ctl.pc = "idle"
    /\ task_counter + 1 + WritesOwed(photo, {}) <= MaxTasks
    /\ enqueue_key(QueueState, FullFocusPriority, [path |-> path, kind |-> "full"])
            # QueueState
    /\ SetQueue(enqueue_key(QueueState, FullFocusPriority, [path |-> path, kind |-> "full"]))
    /\ UNCHANGED <<photo, sidecar, EXIFTOOL_PATH, loader_stop, running, exited,
                   done_events, signals, ctl, history, image_vars>>

\* get returns a full-resolution decode: _wrap calls _worker_entry(path,
\* 'full'), which enters _acquire_full_slot.
loader_run_full ==
    /\ Cardinality(running) + exited < NumWorkers
    /\ taskq # {}
    /\ QueueHead(taskq).kind = "full"
    /\ \E success \in BOOLEAN :
        running' = running \cup {InLoad(QueueHead(taskq), success)}
    /\ taskq' = taskq \ {QueueHead(taskq)}
    /\ slots' = [slots EXCEPT !.acquiring = @ + 1]
    /\ UNCHANGED <<photo, sidecar, EXIFTOOL_PATH, unfinished, task_counter,
                   pending_tasks, loader_stop, exited, done_events, signals, ctl,
                   history, cache, loads, jobs>>

\* _worker_entry(path, 'full') has returned or raised after its finally:
\* _wrap ends and _loader_loop calls task_done.
full_task_finish(r) ==
    /\ r.task.kind = "full"
    /\ Cardinality({x \in running : x.task.kind = "full"}) > InFullEntry
    /\ load_task_finish(r)

CloseInit == ImageInit /\ IdleSession

CloseNext ==
    \/ autosave_mutation
    \/ \E path \in Photos : enqueue_load_full(path)
    \/ cleanup
    \/ flush_queue_step
    \/ flush_queue_end
    \/ cleanup_stop
    \/ loader_run_write({TRUE, FALSE})
    \/ loader_run_full
    \/ acquire_full_slot
    \/ full_decode_ends
    \/ note_user_input
    \/ input_settles
    \/ \E r \in running : write_task_complete(r)
    \/ \E r \in running : write_task_emit(r)
    \/ \E r \in running : full_task_finish(r)
    \/ loader_exit

\* The loader threads keep running: a queued task is taken, a decode that
\* waits for a slot that is free gets it, a decode ends, and a thread that
\* finds the stop flag raised leaves its loop.
CloseFairness ==
    /\ WF_vars(loader_run_write({TRUE, FALSE}))
    /\ WF_vars(loader_run_full)
    /\ WF_vars(acquire_full_slot)
    /\ WF_vars(full_decode_ends)
    /\ WF_vars(\E r \in running : write_task_complete(r))
    /\ WF_vars(\E r \in running : write_task_emit(r))
    /\ WF_vars(\E r \in running : full_task_finish(r))
    /\ WF_vars(loader_exit)

CloseSpec == CloseInit /\ [][CloseNext]_vars /\ CloseFairness

\* ============================================================== properties
\* The metadata writes of photo i that are queued (in the queue or held by a
\* running _flush_queue), and the ones a loader thread executes and has not
\* yet reconciled with the photo.
WritesQueued(i) == {t \in taskq \cup ctl.preserved : t.kind = "save" /\ t.path = i}
WritesExecuting(i) ==
    {r \in running : r.task.kind = "save" /\ r.task.path = i /\ r.pc = "complete"}
NoWriteInFlight(i) ==
    /\ WritesQueued(i) = {}
    /\ \A r \in running : ~(r.task.kind = "save" /\ r.task.path = i)

\* The step in which loader record r runs the finally block of its write.
Completes(r) == r \in running /\ r.pc = "complete" /\ r \notin running'

\* The write tasks a step posts for photo i.
Dispatched(i) == {t \in taskq' \ (taskq \cup ctl.preserved) : t.kind = "save" /\ t.path = i}

\* The queued tasks with key k.
KeyQueued(k) == {t \in taskq \cup ctl.preserved : t.key = k}

TheoremC2 ==
    \A i \in Photos :
        LET n == Cardinality(WritesQueued(i)) + Cardinality(WritesExecuting(i)) IN
        /\ n <= 1
        /\ photo[i].is_saving <=> (n = 1)

\* C2 witness: save_all_dirty_files was called after the last mutation while
\* a photo was dirty and its earlier write still executing; it was skipped.
WitnessC2 ==
    \E i \in Photos :
        /\ history.flushed # "no"
        /\ photo[i].is_dirty /\ photo[i].is_saving
        /\ WritesExecuting(i) # {}

\* ---- C3
\* C3: the step of _on_xmp_ready leaves rating, color_label and selected of a
\* photo as they are when the photo is dirty or saving at that moment.
TheoremC3 ==
    [][on_xmp_ready =>
        \A i \in Photos :
            (photo[i].is_dirty \/ photo[i].is_saving)
                => Payload(photo'[i]) = Payload(photo[i])]_vars

\* C3 witness: a read result that differs from the fields of its photo is the
\* next signal for _on_xmp_ready while the photo is dirty or saving.
WitnessC3 ==
    /\ ctl.pc = "idle"
    /\ signals # <<>>
    /\ Head(signals).sig = "xmp"
    /\ LET p == photo[Head(signals).path]
           data == Head(signals).data IN
        /\ p.is_dirty \/ p.is_saving
        /\ \E k \in DOMAIN data : data[k] # p[k]

\* ---- C4
\* C4: when a write dispatched with saving_version = v completes successfully
\* after a mutation has raised version above v, the photo is left with
\* is_saving = false and is_dirty = true, so a flush would dispatch it.
TheoremC4 ==
    [][\A r \in running :
        LET i == r.task.path IN
        (/\ Completes(r)
         /\ r.success
         /\ photo[i].saving_version = r.task.version
         /\ photo[i].version > r.task.version)
        => (/\ ~photo'[i].is_saving
            /\ photo'[i].is_dirty
            /\ i \in Dispatchable(photo'))]_vars

\* C4 witness: a successful write has just been reconciled with a photo that
\* was mutated after the dispatch; no signal is to be emitted.
WitnessC4 ==
    \E r \in running :
        /\ r.pc = "emit" /\ r.task.kind = "save"
        /\ r.success /\ r.signal_to_emit = "none"
        /\ photo[r.task.path].version > r.task.version
        /\ photo[r.task.path].is_dirty /\ ~photo[r.task.path].is_saving

\* ---- C5
\* The step in which _flush_queue returns.
FlushReturns == ctl.pc = "flush" /\ ctl'.pc # "flush"

\* The step in which the drain loop of _flush_queue takes task t.
FlushTakes(t) == ctl.pc = "flush" /\ t \in taskq /\ t \notin taskq' /\ running' = running

TheoremC7 ==
    \A k \in Keys :
        Cardinality(KeyQueued(k)) + Cardinality({r \in running : r.task.key = k}) <= 1

\* C7 witness: _apply_task_plan is about to call _enqueue with a key whose
\* task a loader thread is executing.
WitnessC7 ==
    /\ ctl.pc = "enqueue"
    /\ \E n \in DOMAIN ctl.plan : \E r \in running : r.task.key = ctl.plan[n].key

\* ---- C8
\* C8: when a write that is not stale completes with failure and the photo
\* has no newer mutation, the photo is left with is_saving = false and
\* is_dirty = true and a save-failed event is emitted; the photo then stays
\* dirty and not saving until a write carrying its current fields is posted
\* for it, and every call of save_all_dirty_files posts one.
TheoremC8 ==
    [][/\ \A r \in running :
            LET i == r.task.path IN
            (/\ Completes(r)
             /\ ~r.success
             /\ photo[i].saving_version = r.task.version
             /\ photo[i].version = r.task.version)
            => (/\ ~photo'[i].is_saving /\ photo'[i].is_dirty
                /\ [r EXCEPT !.pc = "emit", !.signal_to_emit = "failed"] \in running')
       /\ \A r \in running :
            (r.pc = "emit" /\ r.signal_to_emit = "failed" /\ r \notin running')
            => signals' = Append(signals, [sig |-> "failed", path |-> r.task.path,
                                           data |-> EmptyDict])
       /\ \A i \in Dispatchable(photo) :
            \/ i \in Dispatchable(photo')
            \/ \E t \in Dispatched(i) :
                t.data = Payload(photo[i]) /\ t.version = photo[i].version
       /\ ((\E wait \in BOOLEAN : save_all_dirty_files(wait)) \/ cleanup)
            => Dispatchable(photo') = {}]_vars

\* C8 witness: a failed write has just been reconciled with its unchanged
\* photo: the photo is dirty again and the save-failed signal is to be emitted.
WitnessC8 ==
    \E r \in running :
        /\ r.pc = "emit" /\ r.signal_to_emit = "failed"
        /\ photo[r.task.path].version = r.task.version
        /\ photo[r.task.path].is_dirty /\ ~photo[r.task.path].is_saving

EventsOutstanding ==
    {t \in taskq \cup ctl.preserved : t.has_event}
        \cup {r.task : r \in {x \in running : x.pc = "complete" /\ x.task.has_event}}

\* C10: a call save_all_dirty_files(wait=True) that waits comes to its return,
\* and outside such a wait no write task that carries a done event is queued
\* or short of the end of its finally block: the call returns only after the
\* completion handling of every write it dispatched.
TheoremC10 ==
    /\ [](ctl.pc # "wait" => EventsOutstanding = {})
    /\ [](ctl.pc = "wait" => \A t \in EventsOutstanding : t.seq \in ctl.wait_events)
    /\ (ctl.pc = "wait") ~> (ctl.pc = "idle")

\* C10 witness: every photo has been mutated, a call with wait=True has
\* returned from its wait, no photo is saving any more, and a write task the
\* call waited for is about to emit its signal.
WitnessC10 ==
    /\ ctl.pc = "idle"
    /\ history.flushed = "wait"
    /\ \E r \in running : r.pc = "emit" /\ r.task.has_event
    /\ \A i \in Photos : photo[i].version > 0 /\ ~photo[i].is_saving

\* ---- C11
\* A keyed task whose key is outside the plan of the running replan.
OutsidePlan(t) == t.key # NoKey /\ t.key \notin ctl.preserve_set

\* The step in which a loader thread takes task t off the queue.
LoaderTakes(t) == t \in taskq /\ t \notin taskq' /\ running' # running

Present(k) == (\E t \in taskq : t.key = k) \/ (\E r \in running : r.task.key = k)

\* The replan has made its call of _enqueue for the plan key k.
Enqueued(k) == k \in ctl.preserve_set /\ \A n \in DOMAIN ctl.plan : ctl.plan[n].key # k

\* C12 as stated: when the replan returns, every key of its plan has a task
\* that is queued or being executed.
CounterC12 ==
    [][apply_task_plan_return => \A k \in ctl.preserve_set : Present(k)']_vars

\* C12: every key of the plan has a task that is queued or being executed
\* when the replan's call of _enqueue for it returns, and until the replan
\* returns such a task goes away only by a loader thread ending it.
TheoremC12 ==
    [][(ctl.caller = "replan" /\ ctl.pc = "enqueue")
        => \A k \in ctl.preserve_set :
            /\ (apply_task_plan_enqueue_one /\ Head(ctl.plan).key = k) => Present(k)'
            /\ (Enqueued(k) /\ Present(k) /\ ~Present(k)')
                => \E r \in running \ running' : r.task.key = k]_vars

\* C12 witness: the replan is about to return; of its plan keys one has its
\* task queued, one has it in a loader thread, and the plan holds the four
\* kinds of task.
WitnessC12 ==
    /\ ctl.caller = "replan" /\ ctl.pc = "enqueue" /\ ctl.plan = <<>>
    /\ \E k \in ctl.preserve_set : \E t \in taskq : t.key = k
    /\ \E k \in ctl.preserve_set : \E r \in running : r.task.key = k
    /\ \A k \in ctl.preserve_set : Present(k)
    /\ {k.kind : k \in ctl.preserve_set} \in {{"half", "xmp", "full"}, {"xmp", "resized", "full"}}

\* ---- C13
\* C13: in each of the three tiers the cached entries stand in the order of
\* their last use, a read counting as a use: of two cached entries the one
\* read later is nearer the end, so the evictions (which take the head) reach
\* it later.
CounterC13 ==
    \A kind \in {"full", "half", "resized"} : cache[Tier(kind)] = cache.used[kind]

\* ---- C14
\* The item cap of a tier.
Cap(c, kind) == IF kind = "resized" THEN ResizedLimit ELSE c[LimitOf(kind)]

\* A put of key into the tier of kind leaves at most the cap, and what it
\* removed was used less recently than everything it left, the new entry
\* counting as the most recently used.
EvictsLeastRecentlyUsed(kind, key) ==
    LET u == Append(Without(cache.used[kind], key), key)
        kept(n) == Cached(cache'[Tier(kind)], u[n]) IN
    /\ Len(cache'[Tier(kind)]) <= Cap(cache', kind)
    /\ \A n, m \in DOMAIN u : (n < m /\ kept(n)) => kept(m)

\* C14: after every put into a tier (with no memory budget in force, so that
\* only the item cap evicts) the tier holds at most its cap and the put has
\* removed exactly the least recently used entries.
CounterC14 ==
    [][/\ \A kind \in {"full", "half"}, path \in CachePaths :
            \A size \in SizeChoices(kind) :
                put_pil_step(kind, path, size, NoVm) => EvictsLeastRecentlyUsed(kind, path)
       /\ \A path \in CachePaths :
            put_resized_pixmap(path) => EvictsLeastRecentlyUsed("resized", path)]_vars

\* ---- C15
\* The sum of the sizes recorded for the cached images.
RECURSIVE SumSizes(_, _)
SumSizes(sizes, keys) ==
    IF keys = {} THEN 0
    ELSE LET k == CHOOSE x \in keys : TRUE IN sizes[k] + SumSizes(sizes, keys \ {k})

\* C15: after an insert into the preview or the full-resolution cache made
\* while a memory budget is in force, the estimated bytes tracked are at most
\* the target of that budget; and the bytes tracked are at all times the
\* sizes of the images the two tiers hold.
TheoremC15 ==
    /\ cache.budget # NoBudget => cache.cache_estimated_bytes <= cache.budget
    /\ cache.cache_estimated_bytes =
            SumSizes(cache.cache_item_sizes, DOMAIN cache.cache_item_sizes)
    /\ DOMAIN cache.cache_item_sizes =
            {<<"full", x>> : x \in {y \in CachePaths : Cached(cache.pil_full_cache, y)}}
            \cup {<<"half", x>> : x \in {y \in CachePaths : Cached(cache.pil_half_cache, y)}}

\* C15 witness: an insert under a budget has just evicted from both tiers: the
\* full-resolution cache is empty, the preview cache has lost entries (its
\* limit was lowered), and the bytes tracked are within the least budget.
WitnessC15 ==
    /\ cache.pil_full_cache = <<>>
    /\ cache.cache_half_limit < InitHalfLimit
    /\ cache.cache_full_limit < InitFullLimit
    /\ cache.pil_half_cache # <<>>
    /\ cache.budget = MinBudget

\* ---- C16
\* The memory budget of the reading vm fits exactly the full-resolution
\* entries that are cached, which all have the size `size`, and nothing else
\* is counted in the bytes tracked.
FitsExactly(vm, size) ==
    /\ vm # NoVm
    /\ cache.pil_full_cache # <<>>
    /\ cache.pil_half_cache = <<>>
    /\ \A n \in DOMAIN cache.pil_full_cache :
            cache.cache_item_sizes[<<"full", cache.pil_full_cache[n]>>] = size
    /\ Target(vm) = Len(cache.pil_full_cache) * size

\* C16: when the budget fits exactly the n equal-size entries of the
\* full-resolution cache, the insert of one more entry of that size evicts
\* one entry and no more, namely the least recently used of the n, and the
\* others and the new one are cached afterwards.
CounterC16 ==
    [][\A vm \in VmChoices, size \in SizeChoices("full"), path \in CachePaths :
        (/\ FitsExactly(vm, size)
         /\ ~Cached(cache.pil_full_cache, path)
         /\ put_pil_full(path, size, vm))
        => LET lru == Head(cache.used["full"]) IN
           /\ ~Cached(cache'.pil_full_cache, lru)
           /\ \A x \in CachePaths :
                (x # lru /\ (x = path \/ Cached(cache.pil_full_cache, x)))
                    => Cached(cache'.pil_full_cache, x)]_vars

\* ---- C17
\* C17: while the user is navigating, at most one loader thread is inside a
\* full-resolution decode.
CounterC17 == slots.user_hot => slots.decoding + slots.unslotted <= 1

\* ---- C18
\* The step in which loader record r, whose action raised, leaves its task.
RaisedEnds(r) == r \in running /\ r.pc = "load" /\ ~r.success /\ r \notin running'

\* C18: when the action of a task raised, the step that ends the task leaves
\* the loader thread in its loop, free to take the next task (no thread has
\* exited, and fewer than all threads are inside a task), and takes the key
\* of the task out of the pending set, so that _enqueue with that key posts a
\* task again.
TheoremC18 ==
    [][\A r \in running :
        RaisedEnds(r)
        => /\ exited' = exited
           /\ Cardinality(running') + exited' < NumWorkers
           /\ unfinished' = unfinished - 1
           /\ r.task.key \notin pending_tasks'
           /\ LET q == [taskq |-> taskq', task_counter |-> task_counter',
                        pending_tasks |-> pending_tasks', unfinished |-> unfinished']
              IN \E t \in enqueue_key(q, r.task.priority, r.task.key).taskq \ taskq' :
                    t.key = r.task.key]_vars

\* C18 witness: the action of a keyed task has raised in a loader thread (the
\* key is still pending) while later tasks are queued.
WitnessC18 ==
    \E r \in running :
        /\ r.pc = "load" /\ ~r.success
        /\ r.task.key \in pending_tasks
        /\ \E t \in taskq : t.seq > r.task.seq

\* ---- C19
\* C19: without ExifTool every sidecar read a loader thread makes returns the
\* empty map, though the files hold tags, and every sidecar write returns
\* failure and leaves the file as it was, so the only signals are those of
\* failed writes; no loader thread leaves its loop, and whenever a task is
\* queued and a thread is free, the thread can take the task, whatever its kind.
TheoremC19 ==
    /\ \A r \in running :
        /\ r.pc = "finish" => r.xmp_data = EmptyDict
        /\ r.task.kind = "save" => ~r.success
    /\ \A i \in PlanPhotos : sidecar[i] = TaggedSidecar
    /\ \A n \in DOMAIN signals : signals[n].sig = "failed"
    /\ exited = 0
    /\ (taskq # {} /\ Cardinality(running) < NumWorkers)
        => ENABLED (loader_run_write({TRUE, FALSE}) \/ loader_run_xmp \/ loader_run_load)

\* C19 witness: a sidecar write has failed for want of ExifTool and its
\* failure is about to be signalled, while the other loader thread executes a
\* decode or a render.
WitnessC19 ==
    /\ ~EXIFTOOL_PATH
    /\ \E r \in running :
        r.task.kind = "save" /\ r.pc = "emit" /\ r.signal_to_emit = "failed"
    /\ \E r \in running : r.pc = "load"

\* ---- C20
\* C20: the user has seen at most one decode-failure notice for each photo.
CounterC20 == \A i \in Photos : loads.shown[i] <= 1

\* ---- C21
\* C21: no decode is queued whose key is that of a decode that has failed.
CounterC21 == \A t \in taskq : t.key \notin loads.failed

\* ---- C22
\* C22: once an export has finished, every RAW or XMP file of the RAW output
\* folder has the base name of a selected photo, and the folder holds the RAW
\* file of every selected photo and its sidecar when the photo has one.
Selected == {jobs.export.selected_raw_paths[n] : n \in DOMAIN jobs.export.selected_raw_paths}

CounterC22 ==
    jobs.export.pc = "finished" =>
        /\ \A f \in Listed(jobs.export.raw_out) : f.base \in BasesOf(Selected)
        /\ \A p \in Selected :
            /\ p \in Listed(jobs.export.raw_out)
            /\ XmpOf(p) \in RootXmp => XmpOf(p) \in Listed(jobs.export.raw_out)

\* ---- C23
\* A step in which the analysis worker goes into a photo.
StartsPhoto == jobs.analysis.current = 0 /\ jobs'.analysis.current # 0

\* A step in which _on_analysis_finished runs.
FinishedHandled == jobs.analysis.pc = "emitted" /\ jobs'.analysis.pc = "idle"

\* C23: once cancel is requested the worker goes into no further photo, and
\* when the finished event has been handled every photo the worker processed
\* has its payload in the photo's analysis fields and in the store.
TheoremC23 ==
    [][/\ jobs.analysis.cancel_requested => ~StartsPhoto
       /\ FinishedHandled =>
            /\ jobs.analysis.delivered = jobs.analysis.processed
            /\ \A p \in DOMAIN jobs.analysis.processed :
                /\ jobs'.analysis.analysis_status[p] = jobs.analysis.processed[p]
                /\ p \in DOMAIN jobs'.analysis.store
                /\ jobs'.analysis.store[p] = jobs.analysis.processed[p]]_vars

\* C23 witness: a canceled analysis has ended with some photos processed and
\* applied and others never started.
WitnessC23 ==
    /\ jobs.analysis.pc = "idle"
    /\ jobs.analysis.cancel_requested
    /\ jobs.analysis.processed # EmptyDict
    /\ jobs.analysis.index < Len(jobs.analysis.photos)
    /\ \A p \in DOMAIN jobs.analysis.processed :
            jobs.analysis.analysis_status[p] = jobs.analysis.processed[p]

\* ---- C24
\* The version of photo i goes up and the photo is dirty after the step.
Bumped(i) == photo'[i].version > photo[i].version /\ photo'[i].is_dirty

WritesInFlight(i) == WritesQueued(i) \cup {r.task : r \in WritesExecuting(i)}

\* C25: while a photo is_saving, one write task of it is queued or executing,
\* and the version that task carries is the photo's saving_version.
TheoremC25 ==
    \A i \in Photos :
        photo[i].is_saving =>
            /\ Cardinality(WritesInFlight(i)) = 1
            /\ \A t \in WritesInFlight(i) : t.version = photo[i].saving_version

\* C25 witness: a photo is_saving at its second version with its write in
\* flight.
WitnessC25 ==
    \E i \in Photos :
        /\ photo[i].is_saving
        /\ photo[i].saving_version = 2
        /\ WritesInFlight(i) # {}

\* ---- C26
\* C26: a write task posted for a photo carries the fields and the version
\* the photo has before and after the posting step, which are the fields of
\* its last mutation, and the step records that version as saving_version;
\* and a write in flight whose version is still the photo's carries the
\* photo's fields.
TheoremC26 ==
    [][\A i \in Photos :
        /\ \A t \in Dispatched(i) :
            /\ t.data = Payload(photo[i])
            /\ t.data = history.last_mutation[i]
            /\ t.version = photo[i].version
            /\ Payload(photo'[i]) = t.data
            /\ photo'[i].version = t.version
            /\ photo'[i].saving_version = t.version
            /\ photo'[i].is_saving /\ ~photo'[i].is_dirty
        /\ \A t \in WritesInFlight(i) :
            t.version = photo[i].version => t.data = Payload(photo[i])]_vars

\* C26 witness: a write posted at version 1 is queued while its photo has
\* been mutated again and has other fields than the write carries.
WitnessC26 ==
    \E i \in Photos : \E t \in WritesQueued(i) :
        /\ t.version = 1
        /\ photo[i].saving_version = 1
        /\ photo[i].version = 2
        /\ t.data # Payload(photo[i])

\* ---- C27
\* C27: the finally block of a write whose version is not the photo's
\* saving_version leaves the photo as it is and has no signal to emit, and the
\* task then ends without a signal.
TheoremC27 ==
    [][/\ \A r \in running :
            (Completes(r) /\ photo[r.task.path].saving_version # r.task.version)
            => /\ photo' = photo
               /\ [r EXCEPT !.pc = "emit", !.signal_to_emit = "none"] \in running'
       /\ \A r \in running :
            (r.pc = "emit" /\ r.signal_to_emit = "none" /\ r \notin running')
            => signals' = signals]_vars

\* C27 witness: a write has ended and emitted nothing while its photo, saving
\* at version 2, is still saving: the write carried another version.
WitnessC27 ==
    /\ running = {}
    /\ unfinished = 0
    /\ signals = <<>>
    /\ photo[1].is_saving
    /\ photo[1].saving_version = 2
    /\ photo[1].version = 2
    /\ ~photo[1].is_dirty

CleanAndWritten(i) ==
    /\ ~photo[i].is_dirty
    /\ ~photo[i].is_saving
    /\ WrittenSidecar(sidecar[i], Payload(photo[i])) = sidecar[i]

\* C31: while the autosave timers keep firing and writes fail only finitely
\* often, a photo that is dirty or saving comes to the Clean state with its
\* sidecar holding its in-memory fields; with the mutations of a session
\* finite, that state comes after the last of them.
TheoremC31 ==
    \A i \in Photos :
        (photo[i].is_dirty \/ photo[i].is_saving) ~> CleanAndWritten(i)

\* C31 witness: a photo is in the Clean state with its fields on disk after
\* two mutations and a failed write of it, whose signal is still queued.
WitnessC31 ==
    \E i \in Photos :
        /\ photo[i].version = 2
        /\ CleanAndWritten(i)
        /\ \E k \in 1..Len(signals) :
              signals[k].sig = "failed" /\ signals[k].path = i


\* ---- C32
\* The distance of a queued task's item from the focus item.
Distance(t, cur) == IF t.path >= cur THEN t.path - cur ELSE cur - t.path

\* C32: when _apply_task_plan has enqueued the last entry of a replan for the
\* focus item cur, of two queued tasks of one tier the one whose item is
\* nearer to cur has a priority value no greater than the other's.
CounterC32 ==
    (ctl.pc = "enqueue" /\ ctl.caller = "replan" /\ ctl.plan = <<>>)
        => \A t1 \in taskq : \A t2 \in taskq :
              (/\ t1.kind \in LoadKinds \cup {"xmp"}
               /\ t1.kind = t2.kind
               /\ Distance(t1, ctl.cur) < Distance(t2, ctl.cur))
              => t1.priority <= t2.priority


\* ---- C33
\* C33: a turn of the drain loop of _flush_queue, run by a replan for the
\* focus item, that takes a render, a thumbnail build, a metadata read or a
\* full-resolution decode of the focus item off the queue puts it on the
\* preserved list.
CounterC33 ==
    [][(/\ ctl.pc = "flush"
        /\ ctl.caller = "replan"
        /\ ctl.cur = jobs.nav.idx
        /\ ctl'.pc = "flush"
        /\ running' = running)
       => \A t \in taskq \ taskq' :
              (t.path = ctl.cur /\ t.kind \in {"resized", "thumb", "meta", "full"})
                  => t \in ctl'.preserved]_vars


\* ---- C34
\* C34: the task a loader thread takes off the queue comes before every other
\* task in the queue in the order (priority, sequence); the queued tasks,
\* the ones a running flush holds included, have distinct sequence numbers,
\* and a task that is posted has a sequence number above all of theirs, so
\* that of two tasks of one priority the one posted first is taken first,
\* whether or not a flush has put them back in between.
TheoremC34 ==
    [][/\ running' # running
            => \A t \in taskq \ taskq' :
                  /\ \E r \in running' \ running : r.task = t
                  /\ \A u \in taskq \ {t} : Before(t, u)
       /\ \A t \in taskq' \ (taskq \cup ctl.preserved) :
              \A u \in (taskq \cup ctl.preserved \cup taskq') \ {t} : u.seq < t.seq
       /\ \A t \in taskq' \cup ctl'.preserved :
              \A u \in (taskq' \cup ctl'.preserved) \ {t} : u.seq # t.seq]_vars

\* C34 witness: a flush has just put the preserved tasks back and nothing of
\* the new plan is enqueued yet; a loader thread runs a task while a task of
\* the same priority that was posted after it waits in the queue.
WitnessC34 ==
    /\ ctl.pc = "enqueue"
    /\ ctl.caller = "replan"
    /\ Len(ctl.plan) = Cardinality(ctl.preserve_set)
    /\ \E r \in running : \E u \in taskq :
          r.task.priority = u.priority /\ r.task.seq < u.seq


\* ---- C35
\* The entries of plan with key k, and the least priority value among them.
EntriesOf(plan, k) == {n \in DOMAIN plan : plan[n].key = k}
LowestOf(plan, k) ==
    CHOOSE x \in {plan[n].priority : n \in EntriesOf(plan, k)} :
        \A n \in EntriesOf(plan, k) : x <= plan[n].priority

\* C35: while _apply_task_plan runs on a plan, the list it enqueues from holds
\* no key twice and each entry of it has the lowest priority value among the
\* plan's entries for its key; a turn of the enqueue loop posts at most one
\* task, which has the key and the priority of the entry the turn is for, and
\* leaves no entry for that key on the list.
TheoremC35 ==
    /\ [](ctl.caller = "replan"
            => \A n \in DOMAIN ctl.plan :
                  /\ ctl.plan[n].priority = LowestOf(ctl.given, ctl.plan[n].key)
                  /\ \A m \in DOMAIN ctl.plan :
                        ctl.plan[m].key = ctl.plan[n].key => m = n)
    /\ [](ctl.pc = "flush" /\ ctl.caller = "replan"
            => {ctl.plan[n].key : n \in DOMAIN ctl.plan} = PlanKeys(ctl.given))
    /\ [][apply_task_plan_enqueue_one
            => /\ Cardinality(taskq' \ taskq) <= 1
               /\ \A t \in taskq' \ taskq :
                    t.key = Head(ctl.plan).key /\ t.priority = Head(ctl.plan).priority]_vars

\* C35 witness: _apply_task_plan has enqueued from a plan of three entries
\* that names the preview of photo 1 twice, at two priorities; the one task
\* queued for it has the lower of the two.
WitnessC35 ==
    /\ ctl.pc = "enqueue"
    /\ ctl.plan = <<>>
    /\ Len(ctl.given) = 3
    /\ \E n \in 1..3 : \E m \in 1..3 :
          /\ ctl.given[n].key = ctl.given[m].key
          /\ ctl.given[n].key.path = 1
          /\ ctl.given[n].priority < ctl.given[m].priority
          /\ \E t \in taskq : t.key = ctl.given[n].key /\ t.priority = ctl.given[n].priority
          /\ Cardinality({t \in taskq : t.key = ctl.given[n].key}) = 1


\* ---- C36
\* What the memory budget did in an insert of (path, size) into the tier of
\* kind under the reading vm: `before` is the cache as the item cap left it,
\* `after` as the budget left it.  A tier that lost n entries lost its n
\* oldest; the full-resolution tier lost one if the bytes were over the
\* target and it held any; and the preview tier lost one only if the
\* full-resolution tier was emptied.
BudgetEvictsFullFirst(c, kind, path, size, vm) ==
    LET before == put_pil(c, kind, path, size, NoVm)
        after == put_pil(c, kind, path, size, vm)
        gone(k) == Len(before[Tier(k)]) - Len(after[Tier(k)]) IN
    /\ \A k \in {"full", "half"} :
            after[Tier(k)] = SubSeq(before[Tier(k)], gone(k) + 1, Len(before[Tier(k)]))
    /\ (before.cache_estimated_bytes > Target(vm) /\ before.pil_full_cache # <<>>)
            => gone("full") >= 1
    /\ gone("half") >= 1 => after.pil_full_cache = <<>>

\* C36: when the bytes tracked exceed the budget after an insert, the budget
\* evicts the oldest entries of the full-resolution tier first, and it evicts
\* a preview only when no full-resolution entry is left: so for every insert
\* that can be made into a cache the program has reached.
TheoremC36 ==
    \A kind \in {"full", "half"}, path \in CachePaths, vm \in VmChoices \ {NoVm} :
        \A size \in SizeChoices(kind) :
            BudgetEvictsFullFirst(cache, kind, path, size, vm)

\* C36 witness: an insert under a budget has evicted from the full-resolution
\* tier, which still holds entries, and the bytes are within the budget: the
\* preview tier has its entry and its limit has never been lowered.
WitnessC36 ==
    /\ cache.budget # NoBudget
    /\ cache.cache_full_limit < InitFullLimit
    /\ cache.pil_full_cache # <<>>
    /\ cache.pil_half_cache # <<>>
    /\ cache.cache_half_limit = InitHalfLimit
    /\ cache.cache_estimated_bytes = cache.budget


\* ---- C37
\* The item cap of the tier of kind k after an insert of (path, size) into
\* the tier of kind under the reading vm in which the budget evicted from the
\* tier of k is cap(k, the entries left in that tier).
CapAfterBudgetEviction(c, kind, path, size, vm, cap(_, _)) ==
    LET before == put_pil(c, kind, path, size, NoVm)
        after == put_pil(c, kind, path, size, vm) IN
    \A k \in {"full", "half"} :
        Len(after[Tier(k)]) < Len(before[Tier(k)])
            => after[LimitOf(k)] = cap(k, Len(after[Tier(k)]))

\* The entries left, and the entries left or the least cap if that is more.
EntriesLeft(k, left) == left
EntriesLeftOrFloor(k, left) ==
    Max(IF k = "full" THEN FullLimitFloor ELSE HalfLimitFloor, left)

\* C37 as stated: after the budget has evicted from a tier the item cap of
\* the tier is the number of entries it left there.
CounterC37 ==
    \A kind \in {"full", "half"}, path \in CachePaths, vm \in VmChoices \ {NoVm} :
        \A size \in SizeChoices(kind) :
            CapAfterBudgetEviction(cache, kind, path, size, vm, EntriesLeft)

\* C37 amended: after the budget has evicted from a tier the item cap of the
\* tier is the number of entries it left there, or the least cap of the tier
\* (8 full-resolution entries, 16 previews) if that is more; and no tier ever
\* holds more entries than its item cap.
TheoremC37 ==
    /\ \A kind \in {"full", "half"}, path \in CachePaths, vm \in VmChoices \ {NoVm} :
         \A size \in SizeChoices(kind) :
            CapAfterBudgetEviction(cache, kind, path, size, vm, EntriesLeftOrFloor)
    /\ \A k \in {"full", "half"} : Len(cache[Tier(k)]) <= cache[LimitOf(k)]

\* C37 witness: an insert under a budget has left one full-resolution entry
\* and no preview, and the item cap of the full-resolution tier is its least
\* cap, which is more than the one entry left.
WitnessC37 ==
    /\ cache.budget # NoBudget
    /\ Len(cache.pil_full_cache) = 1
    /\ cache.pil_half_cache = <<>>
    /\ cache.cache_full_limit = FullLimitFloor
    /\ cache.cache_full_limit > Len(cache.pil_full_cache)
    /\ cache.cache_half_limit = InitHalfLimit


\* ---- C38
\* C38: once cleanup has raised the stop flag every loader thread leaves its
\* loop and exits; and cleanup raises the flag only when no task is queued or
\* held back by its flush, no loader thread is inside a task, and none is
\* inside a full-resolution decode or waiting for its slot.
TheoremC38 ==
    /\ loader_stop ~> (exited = NumWorkers)
    /\ [][(~loader_stop /\ loader_stop')
            => /\ taskq = {} /\ ctl.preserved = {}
               /\ running = {}
               /\ InFullEntry = 0]_vars
    /\ [](loader_stop => (running = {} /\ InFullEntry = 0))

\* C38 witness: the session is closed and every loader thread has exited;
\* before, the flush of cleanup has kept a write, which has been carried out,
\* and a full-resolution decode went through its slot.
WitnessC38 ==
    /\ ctl.pc = "closed" /\ loader_stop
    /\ exited = NumWorkers
    /\ \E i \in Photos : photo[i].version > 0 /\ sidecar[i] # NoSidecar
    /\ \E k \in {[path |-> p, kind |-> "full"] : p \in Photos} : k \notin pending_tasks
    /\ task_counter = MaxTasks
    /\ unfinished = 0


\* ---- C39
\* The keys of the two tiers that are counted, and what the accounting of a
\* cache c has to say: a recorded size for exactly these keys, and the bytes
\* tracked their sum.
CountedKeys(c) ==
    {<<"full", c.pil_full_cache[n]>> : n \in DOMAIN c.pil_full_cache}
    \cup {<<"half", c.pil_half_cache[n]>> : n \in DOMAIN c.pil_half_cache}
Accounted(c) ==
    /\ DOMAIN c.cache_item_sizes = CountedKeys(c)
    /\ c.cache_estimated_bytes = SumSizes(c.cache_item_sizes, CountedKeys(c))

\* C39: after every put into the preview or the full-resolution cache, and
\* after every single eviction from one of them, the bytes tracked are the sum
\* of the recorded sizes of the entries the two tiers hold, and a size is
\* recorded for exactly these entries.
TheoremC39 ==
    /\ Accounted(cache)
    /\ \A kind \in {"full", "half"} :
            cache[Tier(kind)] # <<>> => Accounted(evict_first(cache, kind))

\* C39 witness: the budget has evicted before (the full-resolution limit is
\* lowered); now that tier holds two images of different sizes, the preview
\* tier holds one, and the bytes tracked are the five units of the three.
WitnessC39 ==
    /\ cache.cache_full_limit < InitFullLimit
    /\ Len(cache.pil_full_cache) = 2
    /\ {cache.cache_item_sizes[<<"full", cache.pil_full_cache[n]>>] : n \in 1..2} = {1, 2}
    /\ Len(cache.pil_half_cache) = 1
    /\ cache.cache_estimated_bytes = 5


====
